---- MODULE Spec2Model ----
(***************************************************************************)
(* Authentication and account life cycle of the concert ticket booking     *)
(* back end: the User collection, password registration and login, the     *)
(* one-time codes of e-mail verification and password reset, and the       *)
(* Google OAuth verify callback.                                           *)
(*                                                                         *)
(* The repository holds several revisions of some files.  Each handler is  *)
(* modelled under its own name; a suffix tells revisions apart:            *)
(*   (none)   src/controller/auth.controller.ts, src/unnamed/part_002      *)
(*            (User model), src/unnamed/part_003 (routes and strategy)     *)
(*   User     src/controller/user.ts (signup, login, forget)               *)
(*   V0       src/unnamed/part_005 (register, login), src/models/user.ts,  *)
(*            src/routes/auth.ts (strategy)                                *)
(***************************************************************************)
EXTENDS Integers, Sequences, FiniteSets, TLC

VARIABLES
    users,    \* the User collection: _id -> document
    nextId,   \* the next _id the store hands out
    now,      \* the wall clock, in milliseconds
    tokens,   \* the session tokens issued so far
    last,     \* the response to the most recent request, and what its
              \* handler wrote to the console
    inflight  \* the requests between two awaits: request -> what its
              \* handler holds in memory

vars == <<users, nextId, now, tokens, last, inflight>>

----------------------------------------------------------------------------
(* Bounds of the model *)

\* the clock runs over MaxBig cooldown periods
MaxBig == 2
\* the oauthProviders array of one document holds at most MaxLinks entries
MaxLinks == 2
\* the second clock reading of one handler is at most MaxSkew ms after the first
MaxSkew == 1

(* Program constants *)

\* resendVerification / requestPasswordReset: 600000 ms
COOLDOWN == 600000
\* createVerificationToken / createPasswordResetToken: 10 * 60 * 1000 ms
CODE_TTL == 600000
\* register / resetPassword: password.length < 6
MIN_PASSWORD == 6
\* the verify callback of the strategy: Date.now() + 3600000
TOKEN_TTL == 3600000

----------------------------------------------------------------------------
(* Values *)

Emails == {"a@x.com", "b@x.com"}
\* a string the e-mail pattern of register rejects
BadEmail == "a.x.com"
\* an address as a caller or a provider may spell it, and
\* String.toLowerCase().trim()
UpperEmail == "A@x.com"
toLowerCaseTrim(email) == IF email = UpperEmail THEN "a@x.com" ELSE email
\* plaintexts a caller may supply; "short" is below MIN_PASSWORD, "" is falsy
Passwords == {"secret1", "newpass1", "short"}
\* Math.floor(100000 + Math.random() * 900000): both ends of the range
Codes == {100000, 999999}
ProviderIds == {"g123", "g456"}
Roles == {"user", "admin", "superuser"}

Absent == 0 - 1                               \* an undefined Date
NoSecret == [plain |-> "", rounds |-> 0]      \* an undefined or empty password
NoCode == [plain |-> 0, rounds |-> 0]         \* an undefined code hash
\* a document without phone number
NoPhone == "none"
NoToken == [userId |-> 0, role |-> "none", via |-> "none"]
\* the remainingSeconds of a response that carries none
NoSeconds == 0 - 1000000

\* a plaintext as bcrypt sees it: zero rounds applied
Plain(p) == [plain |-> p, rounds |-> 0]

\* bcrypt.hash: one more round over whatever it is given (the salt is elided)
bcryptHash(s) == [s EXCEPT !.rounds = @ + 1]

\* a comparison that accepts every candidate: the variant the properties
\* of the one-time codes must tell apart from bcryptCompare
bcryptCompareAny(s, h) == TRUE

\* bcrypt.compare(s, h): h is the hash of s itself
bcryptCompare(s, h) == h = bcryptHash(s)

\* jsonWebToken.sign of {userId, role}; via names the path that issued it
generateToken(userId, role, via) == [userId |-> userId, role |-> role, via |-> via]

\* the response of a handler; code is the one-time code the request
\* supplied, logged the one-time code the handler passed to console.log
Resp(op, email, status, kind) ==
    [op |-> op, email |-> email, status |-> status, kind |-> kind,
     code |-> 0, userId |-> 0, token |-> NoToken, remainingSeconds |-> NoSeconds,
     logged |-> 0]

----------------------------------------------------------------------------
(* The clock *)

\* the instants at which a request may arrive: the millisecond before, at
\* and after each multiple of the cooldown period, where the comparisons of
\* the handlers change their outcome
Offsets == {-1, 0, 1}
Instants == {t \in {b * COOLDOWN + f : b \in 0..MaxBig, f \in Offsets} : t >= 0}

\* time passes between two requests
Tick ==
    /\ \E t \in Instants :
         /\ t > now
         /\ \A s \in Instants : ~(now < s /\ s < t)
         /\ now' = t
    /\ UNCHANGED <<users, nextId, tokens, last, inflight>>

----------------------------------------------------------------------------
(* The User model, src/unnamed/part_002 *)

Ids == DOMAIN users

\* a schema without setters on email: the variant the uniqueness of
\* addresses must tell apart from emailSetter
emailSetterNone(email) == email

\* the setters of userSchema.email (trim: true, lowercase: true), which
\* mongoose applies to documents, to query filters and to updates
emailSetter(email) == toLowerCaseTrim(email)

\* User.findOne({ email }): the ids of the matching documents
findByEmail(email) == {i \in Ids : users[i].email = emailSetter(email)}

\* a hook that stores the password as given: the variant the hash invariant
\* must tell apart from preSave
preSaveNoHash(doc, passwordModified) == doc

\* a hook that hashes the password on every save: the variant the frame
\* of the password must tell apart from preSave
preSaveRehash(doc, passwordModified) ==
    IF doc.password # NoSecret THEN [doc EXCEPT !.password = bcryptHash(@)] ELSE doc

\* userSchema.pre('save'): hash the password when it was modified
preSave(doc, passwordModified) ==
    IF passwordModified /\ doc.password # NoSecret
    THEN [doc EXCEPT !.password = bcryptHash(@)]
    ELSE doc

\* User.create of the password paths: the document as stored
newUser(email, password, role) ==
    preSave([email |-> emailSetter(email), password |-> Plain(password), role |-> role,
             isEmailVerified |-> FALSE,
             verificationToken |-> NoCode, verificationTokenExpires |-> Absent,
             passwordResetToken |-> NoCode, passwordResetExpires |-> Absent,
             lastVerificationAttempt |-> Absent, phone |-> NoPhone,
             oauthProviders |-> <<>>], TRUE)

\* a createVerificationToken that does not record the attempt: the variant
\* the shared cooldown must tell apart from createVerificationToken
createVerificationTokenNoAttempt(doc, code, t) ==
    [doc EXCEPT !.verificationTokenExpires = t + CODE_TTL,
                !.verificationToken = bcryptHash(Plain(code))]

\* a createVerificationToken that keeps the code an account already holds
\* and renews its expiry: the variant the replacement of an earlier code
\* must tell apart from createVerificationToken
createVerificationTokenKeepOld(doc, code, t) ==
    [doc EXCEPT !.verificationTokenExpires = t + CODE_TTL,
                !.lastVerificationAttempt = t,
                !.verificationToken = IF @ = NoCode THEN bcryptHash(Plain(code)) ELSE @]

\* createVerificationToken: code hash, expiry and attempt time, then save
createVerificationToken(doc, code, t) ==
    preSave([doc EXCEPT !.verificationTokenExpires = t + CODE_TTL,
                        !.lastVerificationAttempt = t,
                        !.verificationToken = bcryptHash(Plain(code))], FALSE)

\* a createPasswordResetToken that stores the hash without an expiry: the
\* variant the pairing of hash and expiry must tell apart from
\* createPasswordResetToken
createPasswordResetTokenNoExpiry(doc, code, t) ==
    [doc EXCEPT !.passwordResetToken = bcryptHash(Plain(code))]

\* createPasswordResetToken: code hash and expiry, then save
createPasswordResetToken(doc, code, t) ==
    preSave([doc EXCEPT !.passwordResetExpires = t + CODE_TTL,
                        !.passwordResetToken = bcryptHash(Plain(code))], FALSE)

----------------------------------------------------------------------------
(* src/controller/auth.controller.ts *)

\* register: validate, create the account, issue a verification code, mail
\* it, and answer with a session token
register(email, password, code, mailSent) ==
    /\ IF email = "" \/ password = ""
       THEN /\ last' = Resp("register", email, 400, "ValidationError")
            /\ UNCHANGED <<users, nextId, tokens>>
       ELSE IF email \notin Emails \cup {UpperEmail}
       THEN /\ last' = Resp("register", email, 400, "ValidationError")
            /\ UNCHANGED <<users, nextId, tokens>>
       ELSE IF Len(password) < MIN_PASSWORD
       THEN /\ last' = Resp("register", email, 400, "ValidationError")
            /\ UNCHANGED <<users, nextId, tokens>>
       ELSE IF findByEmail(email) # {}
       THEN /\ last' = Resp("register", email, 400, "DuplicateEmail")
            /\ UNCHANGED <<users, nextId, tokens>>
       ELSE LET doc == createVerificationToken(newUser(email, password, "user"), code, now)
                tok == generateToken(nextId, doc.role, "password")
            IN /\ users' = (nextId :> doc) @@ users
               /\ nextId' = nextId + 1
               /\ IF mailSent
                  THEN /\ tokens' = tokens \cup {tok}
                       /\ last' = [Resp("register", email, 201, "Ok") EXCEPT
                                     !.userId = nextId, !.token = tok, !.logged = code]
                  ELSE /\ tokens' = tokens
                       /\ last' = [Resp("register", email, 500, "SystemError") EXCEPT
                                     !.logged = code]
    /\ UNCHANGED <<now, inflight>>

\* the decision of login, in the order of its checks
loginResult(email, password) ==
    IF email = "" \/ password = "" THEN "ValidationError"
    ELSE IF findByEmail(email) = {} THEN "InvalidCredentials"
    ELSE LET user == users[CHOOSE i \in findByEmail(email) : TRUE]
         IN IF user.password = NoSecret THEN "OAuthOnlyAccount"
            ELSE IF ~bcryptCompare(Plain(password), user.password) THEN "InvalidCredentials"
            ELSE IF ~user.isEmailVerified THEN "EmailNotVerified"
            ELSE "Ok"

loginStatus(kind) ==
    CASE kind = "ValidationError" -> 400
      [] kind = "EmailNotVerified" -> 403
      [] kind = "Ok" -> 200
      [] OTHER -> 401

\* login: a session token for a verified account and its password
login(email, password) ==
    LET kind == loginResult(email, password)
    IN /\ IF kind = "Ok"
          THEN LET i == CHOOSE i \in findByEmail(email) : TRUE
                   tok == generateToken(i, users[i].role, "password")
               IN /\ tokens' = tokens \cup {tok}
                  /\ last' = [Resp("login", email, 200, "Ok") EXCEPT
                                !.userId = i, !.token = tok]
          ELSE /\ tokens' = tokens
               /\ last' = Resp("login", email, loginStatus(kind), kind)
       /\ UNCHANGED <<users, nextId, now, inflight>>

\* verifyEmail without its expiry test: the variant the expiry property must
\* tell apart from verifyEmailResult
verifyEmailResultNoExpiry(email, code) ==
    IF findByEmail(email) = {} THEN "NotFound"
    ELSE LET user == users[CHOOSE i \in findByEmail(email) : TRUE]
         IN IF user.verificationToken = NoCode \/ user.verificationTokenExpires = Absent
            THEN "NoActiveCode"
            ELSE IF ~bcryptCompare(Plain(code), user.verificationToken) THEN "InvalidCode"
            ELSE "Ok"

\* the decision of verifyEmail, in the order of its checks
verifyEmailResult(email, code) ==
    IF findByEmail(email) = {} THEN "NotFound"
    ELSE LET user == users[CHOOSE i \in findByEmail(email) : TRUE]
         IN IF user.verificationToken = NoCode \/ user.verificationTokenExpires = Absent
            THEN "NoActiveCode"
            ELSE IF user.verificationTokenExpires < now THEN "CodeExpired"
            ELSE IF ~bcryptCompare(Plain(code), user.verificationToken) THEN "InvalidCode"
            ELSE "Ok"

\* a verifyEmail that keeps the code it consumed: the variant the
\* consume-once property must tell apart from consumeVerification
consumeVerificationKeepCode(doc) == [doc EXCEPT !.isEmailVerified = TRUE]

\* the writes of a successful verifyEmail
consumeVerification(doc) ==
    [doc EXCEPT !.isEmailVerified = TRUE,
                !.verificationToken = NoCode,
                !.verificationTokenExpires = Absent]

\* verifyEmail: consume the verification code
verifyEmail(email, code) ==
    LET kind == verifyEmailResult(email, code)
    IN /\ IF kind = "Ok"
          THEN LET i == CHOOSE i \in findByEmail(email) : TRUE
               IN /\ users' = [users EXCEPT ![i] =
                        preSave(consumeVerification(@), FALSE)]
                  /\ last' = [Resp("verifyEmail", email, 200, "Ok") EXCEPT
                                !.userId = i, !.code = code]
          ELSE /\ users' = users
               /\ last' = [Resp("verifyEmail", email,
                                IF kind = "NotFound" THEN 404 ELSE 400, kind) EXCEPT
                             !.code = code]
       /\ UNCHANGED <<nextId, now, tokens, inflight>>

\* Math.ceil(n / 1000) of an integer n
ceilSeconds(n) == -((-n) \div 1000)

\* a cooldown that never ends once a code was issued: the variant the way
\* out of an expired code must tell apart from inCooldown
inCooldownForever(user, t) == user.lastVerificationAttempt # Absent

\* the cooldown test of both issuing handlers: lastVerificationAttempt is
\* set and less than COOLDOWN ms before t
inCooldown(user, t) ==
    /\ user.lastVerificationAttempt # Absent
    /\ t - user.lastVerificationAttempt < COOLDOWN

\* resendVerification: a fresh verification code for an unverified account.
\* The cooldown branch reads Date.now() a second time for remainingSeconds;
\* t2 is that second reading.
resendVerification(email, code, mailSent) ==
    IF findByEmail(email) = {}
    THEN /\ last' = Resp("resendVerification", email, 404, "NotFound")
         /\ UNCHANGED <<users, nextId, now, tokens, inflight>>
    ELSE LET i == CHOOSE i \in findByEmail(email) : TRUE
             user == users[i]
         IN IF user.isEmailVerified
            THEN /\ last' = Resp("resendVerification", email, 400, "AlreadyVerified")
                 /\ UNCHANGED <<users, nextId, now, tokens, inflight>>
            ELSE IF inCooldown(user, now)
            THEN \E t2 \in {t \in Instants : now <= t /\ t <= now + MaxSkew} :
                   /\ last' = [Resp("resendVerification", email, 400, "Cooldown") EXCEPT
                                 !.userId = i,
                                 !.remainingSeconds =
                                    ceilSeconds(COOLDOWN - (t2 - user.lastVerificationAttempt))]
                   /\ now' = t2
                   /\ UNCHANGED <<users, nextId, tokens, inflight>>
            ELSE   /\ users' = [users EXCEPT ![i] =
                         preSave([createVerificationToken(@, code, now) EXCEPT
                                    !.lastVerificationAttempt = now], FALSE)]
                   /\ last' = [Resp("resendVerification", email,
                                    IF mailSent THEN 200 ELSE 500,
                                    IF mailSent THEN "Ok" ELSE "SystemError") EXCEPT
                                 !.userId = i, !.logged = code]
                   /\ UNCHANGED <<nextId, now, tokens, inflight>>

\* requestPasswordReset: a reset code for a verified account.  now is read
\* once, before the lookup, and used for the test and for remainingSeconds.
requestPasswordReset(email, code, mailSent) ==
    /\ IF findByEmail(email) = {}
       THEN /\ last' = Resp("requestPasswordReset", email, 400, "NotFound")
            /\ users' = users
       ELSE LET i == CHOOSE i \in findByEmail(email) : TRUE
                existingUser == users[i]
            IN IF ~existingUser.isEmailVerified
               THEN /\ last' = Resp("requestPasswordReset", email, 400, "EmailNotVerified")
                    /\ users' = users
               ELSE IF inCooldown(existingUser, now)
               THEN /\ last' = [Resp("requestPasswordReset", email, 400, "Cooldown") EXCEPT
                                  !.userId = i,
                                  !.remainingSeconds =
                                     ceilSeconds(COOLDOWN - (now - existingUser.lastVerificationAttempt))]
                    /\ users' = users
               ELSE   /\ users' = [users EXCEPT ![i] =
                            createPasswordResetToken(
                               preSave([@ EXCEPT !.lastVerificationAttempt = now], FALSE),
                               code, now)]
                      /\ last' = [Resp("requestPasswordReset", email,
                                       IF mailSent THEN 200 ELSE 500,
                                       IF mailSent THEN "Ok" ELSE "NotificationFailed") EXCEPT
                                    !.userId = i]
    /\ UNCHANGED <<nextId, now, tokens, inflight>>

\* resetPassword without the length test of the new password (the handler
\* as it was in part_004): the variant the refusals must tell apart from
\* resetPasswordResult
resetPasswordResultNoLength(email, code, newPassword) ==
    IF findByEmail(email) = {} THEN "NotFound"
    ELSE LET user == users[CHOOSE i \in findByEmail(email) : TRUE]
         IN IF user.passwordResetToken = NoCode \/ user.passwordResetExpires = Absent
            THEN "NoActiveCode"
            ELSE IF user.passwordResetExpires < now THEN "CodeExpired"
            ELSE IF ~bcryptCompare(Plain(code), user.passwordResetToken) THEN "InvalidCode"
            ELSE "Ok"

\* the decision of resetPassword, in the order of its checks
resetPasswordResult(email, code, newPassword) ==
    IF newPassword = "" \/ Len(newPassword) < MIN_PASSWORD THEN "ValidationError"
    ELSE IF findByEmail(email) = {} THEN "NotFound"
    ELSE LET user == users[CHOOSE i \in findByEmail(email) : TRUE]
         IN IF user.passwordResetToken = NoCode \/ user.passwordResetExpires = Absent
            THEN "NoActiveCode"
            ELSE IF user.passwordResetExpires < now THEN "CodeExpired"
            ELSE IF ~bcryptCompare(Plain(code), user.passwordResetToken) THEN "InvalidCode"
            ELSE "Ok"

\* a resetPassword that clears the code and keeps the old password: the
\* variant the reset property must tell apart from consumeReset
consumeResetKeepPassword(doc, newPassword) ==
    [doc EXCEPT !.passwordResetToken = NoCode,
                !.passwordResetExpires = Absent]

\* a resetPassword that also forgets when the last code was issued: the
\* variant the frame of the reset must tell apart from consumeReset
consumeResetClearAttempt(doc, newPassword) ==
    [doc EXCEPT !.password = Plain(newPassword),
                !.passwordResetToken = NoCode,
                !.passwordResetExpires = Absent,
                !.lastVerificationAttempt = Absent]

\* the writes of a successful resetPassword
consumeReset(doc, newPassword) ==
    [doc EXCEPT !.password = Plain(newPassword),
                !.passwordResetToken = NoCode,
                !.passwordResetExpires = Absent]

\* resetPassword: consume the reset code and store the new password
resetPassword(email, code, newPassword) ==
    LET kind == resetPasswordResult(email, code, newPassword)
    IN /\ IF kind = "Ok"
          THEN LET i == CHOOSE i \in findByEmail(email) : TRUE
               IN /\ users' = [users EXCEPT ![i] =
                        preSave(consumeReset(@, newPassword), TRUE)]
                  /\ last' = [Resp("resetPassword", email, 200, "Ok") EXCEPT
                                !.userId = i, !.code = code, !.logged = code]
          ELSE /\ users' = users
               /\ last' = [Resp("resetPassword", email,
                                IF kind = "NotFound" THEN 404 ELSE 400, kind) EXCEPT
                             !.code = code,
                             !.logged = IF kind = "InvalidCode" THEN code ELSE 0]
       /\ UNCHANGED <<nextId, now, tokens, inflight>>

----------------------------------------------------------------------------
(* src/controller/user.ts *)

\* signup: create the account with the role of the request body, issue a
\* verification code (no mail), and answer with a session token
signup(email, password, confirmPassword, role, code) ==
    /\ IF password # confirmPassword
       THEN /\ last' = Resp("signup", email, 400, "ValidationError")
            /\ UNCHANGED <<users, nextId, tokens>>
       ELSE IF findByEmail(email) # {}
       THEN /\ last' = Resp("signup", email, 400, "DuplicateEmail")
            /\ UNCHANGED <<users, nextId, tokens>>
       ELSE IF emailSetter(email) \notin Emails \/ Len(password) < MIN_PASSWORD \/ role \notin Roles
       THEN \* the schema validators of User.create throw
            /\ last' = Resp("signup", email, 500, "SystemError")
            /\ UNCHANGED <<users, nextId, tokens>>
       ELSE LET doc == createVerificationToken(newUser(email, password, role), code, now)
                tok == generateToken(nextId, doc.role, "password")
            IN /\ users' = (nextId :> doc) @@ users
               /\ nextId' = nextId + 1
               /\ tokens' = tokens \cup {tok}
               /\ last' = [Resp("signup", email, 200, "Ok") EXCEPT
                             !.userId = nextId, !.token = tok]
    /\ UNCHANGED <<now, inflight>>

\* the decision of the login of controller/user.ts, in the order of its checks
loginUserResult(email, password) ==
    IF findByEmail(email) = {} THEN "NotFound"
    ELSE LET user == users[CHOOSE i \in findByEmail(email) : TRUE]
         IN IF user.password = NoSecret THEN "NotFound"
            ELSE IF ~bcryptCompare(Plain(password), user.password) THEN "InvalidCredentials"
            ELSE "Ok"

\* the status of createHttpError in the login of controller/user.ts
loginUserStatus(kind) ==
    CASE kind = "NotFound" -> 404
      [] kind = "Ok" -> 200
      [] OTHER -> 400

\* login of controller/user.ts, the handler routes/auth mounts on /login
loginUser(email, password) ==
    LET kind == loginUserResult(email, password)
    IN /\ IF kind = "Ok"
          THEN LET i == CHOOSE i \in findByEmail(email) : TRUE
                   tok == generateToken(i, users[i].role, "password")
               IN /\ tokens' = tokens \cup {tok}
                  /\ last' = [Resp("loginUser", email, 200, "Ok") EXCEPT
                                !.userId = i, !.token = tok]
          ELSE /\ tokens' = tokens
               /\ last' = Resp("loginUser", email, loginUserStatus(kind), kind)
       /\ UNCHANGED <<users, nextId, now, inflight>>

\* verifyToken(user.passwordResetToken): jsonWebToken.verify of a stored
\* bcrypt hash throws, and verifyToken turns that into a 403
verifyTokenThrows(stored) == stored.rounds > 0

\* forget: the reset of controller/user.ts, which reads the stored reset
\* token as a signed code token
forget(email, code, newPassword) ==
    /\ IF findByEmail(email) = {}
       THEN /\ last' = Resp("forget", email, 404, "NotFound")
            /\ users' = users
       ELSE LET i == CHOOSE i \in findByEmail(email) : TRUE
                user == users[i]
            IN IF user.passwordResetToken = NoCode \/ user.passwordResetExpires = Absent
               THEN /\ last' = Resp("forget", email, 400, "NoActiveCode")
                    /\ users' = users
               ELSE IF user.passwordResetExpires < now
               THEN /\ last' = Resp("forget", email, 400, "CodeExpired")
                    /\ users' = users
               ELSE IF verifyTokenThrows(user.passwordResetToken)
               THEN /\ last' = Resp("forget", email, 403, "InvalidToken")
                    /\ users' = users
               ELSE IF user.passwordResetToken.plain # code
               THEN /\ last' = Resp("forget", email, 400, "InvalidCode")
                    /\ users' = users
               ELSE /\ users' = [users EXCEPT ![i] =
                          preSave(consumeReset(@, newPassword), TRUE)]
                    /\ last' = [Resp("forget", email, 200, "Ok") EXCEPT !.userId = i]
    /\ UNCHANGED <<nextId, now, tokens, inflight>>

----------------------------------------------------------------------------
(* Google OAuth: src/unnamed/part_003, src/controller/auth.ts *)

NoEmail == ""
\* the profiles the provider may hand to the verify callback
Profiles == [id : ProviderIds, email : Emails \cup {NoEmail}, photo : BOOLEAN]

\* the entry the verify callback pushes; of the provider's tokens the
\* model keeps the expiry the callback computes from the clock
googleLink(providerId) ==
    [provider |-> "google", providerId |-> providerId, tokenExpiresAt |-> now + TOKEN_TTL]

\* p.provider === 'google' && p.providerId === id
isLinkOf(link, providerId) == link.provider = "google" /\ link.providerId = providerId

\* a lookup by provider id that matches no document (a filter on a path the
\* schema does not have): the variant the one-account-per-identity
\* invariant must tell apart from findByProvider
findByProviderNone(providerId) == {}

\* findOne({'oauthProviders.provider': 'google', 'oauthProviders.providerId': id}):
\* some entry has the provider and some entry has the id
findByProvider(providerId) ==
    {i \in Ids :
        /\ \E k \in 1..Len(users[i].oauthProviders) :
              users[i].oauthProviders[k].provider = "google"
        /\ \E k \in 1..Len(users[i].oauthProviders) :
              users[i].oauthProviders[k].providerId = providerId}

\* oauthProviders.find(p => p.provider === 'google' && p.providerId === id)
existingProvider(doc, providerId) ==
    \E k \in 1..Len(doc.oauthProviders) : isLinkOf(doc.oauthProviders[k], providerId)

\* a merge that also marks the address verified: the variant the frame
\* property of the merge must tell apart from linkByEmail
linkByEmailVerifying(doc, providerId) ==
    [doc EXCEPT !.oauthProviders = Append(@, googleLink(providerId)),
                !.isEmailVerified = TRUE]

\* the branches of the strategy that found an account: push the link
\* unless the account already holds it
linkByEmail(doc, providerId) ==
    IF existingProvider(doc, providerId)
    THEN doc
    ELSE [doc EXCEPT !.oauthProviders = Append(@, googleLink(providerId))]

\* UsersModel.create of the strategy: no password, the schema defaults
newOAuthUser(email, providerId) ==
    preSave([email |-> email, password |-> NoSecret, role |-> "user",
             isEmailVerified |-> FALSE,
             verificationToken |-> NoCode, verificationTokenExpires |-> Absent,
             passwordResetToken |-> NoCode, passwordResetExpires |-> Absent,
             lastVerificationAttempt |-> Absent, phone |-> NoPhone,
             oauthProviders |-> <<googleLink(providerId)>>], FALSE)

\* googleLogin: sign {userId, role} of the user data the strategy passed on
googleLogin(userId, role, email) ==
    LET tok == generateToken(userId, role, "oauth")
    IN /\ tokens' = tokens \cup {tok}
       /\ last' = [Resp("googleCallback", email, 200, "Ok") EXCEPT
                     !.userId = userId, !.token = tok]

\* the role field of the userData object the strategy builds: it has none
NoRole == "undefined"

\* /google/callback: the verify callback of the strategy, then googleLogin
googleCallback(profile) ==
    /\ IF findByProvider(profile.id) # {}
       THEN LET i == CHOOSE i \in findByProvider(profile.id) : TRUE
            IN /\ users' = [users EXCEPT ![i] = linkByEmail(@, profile.id)]
               /\ nextId' = nextId
               /\ googleLogin(i, NoRole, users[i].email)
       ELSE IF profile.email = NoEmail
       THEN /\ last' = Resp("googleCallback", profile.email, 500, "MissingProviderEmail")
            /\ UNCHANGED <<users, nextId, tokens>>
       ELSE IF findByEmail(profile.email) # {}
       THEN LET i == CHOOSE i \in findByEmail(profile.email) : TRUE
            IN /\ Len(users[i].oauthProviders) < MaxLinks
               /\ users' = [users EXCEPT ![i] = preSave(linkByEmail(@, profile.id), FALSE)]
               /\ nextId' = nextId
               /\ googleLogin(i, NoRole, profile.email)
       ELSE IF ~profile.photo
       THEN /\ last' = Resp("googleCallback", profile.email, 500, "MissingProviderPhoto")
            /\ UNCHANGED <<users, nextId, tokens>>
       ELSE /\ users' = (nextId :> newOAuthUser(emailSetter(profile.email), profile.id)) @@ users
            /\ nextId' = nextId + 1
            /\ googleLogin(nextId, NoRole, profile.email)
    /\ UNCHANGED <<now, inflight>>

----------------------------------------------------------------------------
(* The first revision: src/models/user.ts, src/unnamed/part_005,           *)
(* src/routes/auth.ts                                                      *)

\* UsersModel.findOne({ email }) against the schema of models/user.ts, whose
\* email has no setters
findByEmailV0(email) == {i \in Ids : users[i].email = email}

\* userSchema.pre('save') of models/user.ts: hash a modified password and
\* normalise the e-mail
preSaveV0(doc, passwordModified) ==
    [(IF passwordModified /\ doc.password # NoSecret
      THEN [doc EXCEPT !.password = bcryptHash(@)]
      ELSE doc) EXCEPT !.email = toLowerCaseTrim(@)]

\* what a query without select('+password') returns: password is select: false
defaultProjection(doc) == [doc EXCEPT !.password = NoSecret]

\* register of part_005: hash the password, then User.create (whose pre-save
\* hook runs on the new document), then a session token
registerV0(email, password) ==
    /\ IF email = "" \/ password = ""
       THEN /\ last' = Resp("registerV0", email, 400, "ValidationError")
            /\ UNCHANGED <<users, nextId, tokens>>
       ELSE IF email \notin Emails \cup {UpperEmail}
       THEN /\ last' = Resp("registerV0", email, 400, "ValidationError")
            /\ UNCHANGED <<users, nextId, tokens>>
       ELSE IF Len(password) < MIN_PASSWORD
       THEN /\ last' = Resp("registerV0", email, 400, "ValidationError")
            /\ UNCHANGED <<users, nextId, tokens>>
       ELSE IF findByEmailV0(email) # {}
       THEN /\ last' = Resp("registerV0", email, 400, "DuplicateEmail")
            /\ UNCHANGED <<users, nextId, tokens>>
       ELSE LET hashedPassword == bcryptHash(Plain(password))
                doc == preSaveV0(
                         [email |-> email, password |-> hashedPassword, role |-> "user",
                          isEmailVerified |-> FALSE,
                          verificationToken |-> NoCode, verificationTokenExpires |-> Absent,
                          passwordResetToken |-> NoCode, passwordResetExpires |-> Absent,
                          lastVerificationAttempt |-> Absent, phone |-> NoPhone,
                          oauthProviders |-> <<>>], TRUE)
                tok == generateToken(nextId, doc.role, "password")
            IN IF findByEmailV0(doc.email) # {}
               THEN \* the unique index on email refuses the insert
                    /\ last' = Resp("registerV0", email, 500, "SystemError")
                    /\ UNCHANGED <<users, nextId, tokens>>
               ELSE /\ users' = (nextId :> doc) @@ users
                    /\ nextId' = nextId + 1
                    /\ tokens' = tokens \cup {tok}
                    /\ last' = [Resp("registerV0", email, 201, "Ok") EXCEPT
                                  !.userId = nextId, !.token = tok]
    /\ UNCHANGED <<now, inflight>>

\* the decision of the login of part_005: the lookup does not select the
\* password, and the comparison runs against user.password || ''
loginV0Result(email, password) ==
    IF email = "" \/ password = "" THEN "ValidationError"
    ELSE IF findByEmailV0(email) = {} THEN "InvalidCredentials"
    ELSE LET user == defaultProjection(users[CHOOSE i \in findByEmailV0(email) : TRUE])
         IN IF ~bcryptCompare(Plain(password), user.password) THEN "InvalidCredentials"
            ELSE "Ok"

\* login of part_005
loginV0(email, password) ==
    LET kind == loginV0Result(email, password)
    IN /\ IF kind = "Ok"
          THEN LET i == CHOOSE i \in findByEmailV0(email) : TRUE
                   tok == generateToken(i, users[i].role, "password")
               IN /\ tokens' = tokens \cup {tok}
                  /\ last' = [Resp("loginV0", email, 200, "Ok") EXCEPT
                                !.userId = i, !.token = tok]
          ELSE /\ tokens' = tokens
               /\ last' = Resp("loginV0", email, loginStatus(kind), kind)
       /\ UNCHANGED <<users, nextId, now, inflight>>

\* /google/callback of routes/auth.ts: the verify callback pushes a link in
\* both branches that found an account, then googleLogin signs the
\* document's role
googleCallbackV0(profile) ==
    /\ IF findByProvider(profile.id) # {}
       THEN LET i == CHOOSE i \in findByProvider(profile.id) : TRUE
            IN /\ Len(users[i].oauthProviders) < MaxLinks
               /\ users' = [users EXCEPT ![i] =
                     preSaveV0([@ EXCEPT !.oauthProviders = Append(@, googleLink(profile.id))],
                               FALSE)]
               /\ nextId' = nextId
               /\ googleLogin(i, users[i].role, users[i].email)
       ELSE IF profile.email = NoEmail
       THEN /\ last' = Resp("googleCallbackV0", profile.email, 500, "MissingProviderEmail")
            /\ UNCHANGED <<users, nextId, tokens>>
       ELSE IF findByEmailV0(profile.email) # {}
       THEN LET i == CHOOSE i \in findByEmailV0(profile.email) : TRUE
            IN /\ Len(users[i].oauthProviders) < MaxLinks
               /\ users' = [users EXCEPT ![i] =
                     preSaveV0([@ EXCEPT !.oauthProviders = Append(@, googleLink(profile.id))],
                               FALSE)]
               /\ nextId' = nextId
               /\ googleLogin(i, users[i].role, profile.email)
       ELSE IF ~profile.photo
       THEN /\ last' = Resp("googleCallbackV0", profile.email, 500, "MissingProviderPhoto")
            /\ UNCHANGED <<users, nextId, tokens>>
       ELSE LET doc == preSaveV0(newOAuthUser(profile.email, profile.id), FALSE)
            IN IF findByEmailV0(doc.email) # {}
               THEN \* the unique index on email refuses the insert
                    /\ last' = Resp("googleCallbackV0", profile.email, 500, "SystemError")
                    /\ UNCHANGED <<users, nextId, tokens>>
               ELSE /\ users' = (nextId :> doc) @@ users
                    /\ nextId' = nextId + 1
                    /\ googleLogin(nextId, doc.role, profile.email)
    /\ UNCHANGED <<now, inflight>>

----------------------------------------------------------------------------
(* Roles and administration: src/controller/user.ts, src/unnamed/part_007 *)

\* isAuth of middlewares/index: the request carries a session token that
\* verifies, and its {userId, role} become req.user
isAuth(caller) == caller # NoToken

\* isAdminOrSuperuser of part_007, and the role test of controller/user.ts
isAdminOrSuperuser(role) == role = "admin" \/ role = "superuser"

\* a field the request body does not carry
NotGiven == ""
\* the bodies of the update requests: a new address, a new role, an empty
\* oauthProviders array, or nothing
UpdateBodies ==
    [email : {NotGiven, "b@x.com", UpperEmail, BadEmail},
     role : {NotGiven, "user", "admin", "root"},
     clearLinks : BOOLEAN]

\* findByIdAndUpdate(id, updateData, { runValidators: true }): the setters
\* cast the update, the validators of the paths in the update run, and the
\* unique index on email refuses a second document with the address
updateRefused(id, body) ==
    \/ body.email # NotGiven /\ emailSetter(body.email) \notin Emails
    \/ body.role # NotGiven /\ body.role \notin Roles
    \/ body.email # NotGiven /\ findByEmail(body.email) \ {id} # {}

applyUpdate(doc, body) ==
    [doc EXCEPT !.email = IF body.email = NotGiven THEN @ ELSE emailSetter(body.email),
                !.role = IF body.role = NotGiven THEN @ ELSE body.role,
                !.oauthProviders = IF body.clearLinks THEN <<>> ELSE @]

\* findByIdAndDelete
without(id) == [i \in Ids \ {id} |-> users[i]]

\* a findByIdAndUpdate that removes the document it was to update
findByIdAndRemove(id, doc) == [i \in Ids \ {id} |-> users[i]]

\* findByIdAndUpdate: the collection with the document of id replaced
findByIdAndUpdate(id, doc) == [users EXCEPT ![id] = doc]

\* the phone numbers of the profile requests: one the pattern accepts, one
\* it refuses
Phones == {"0912345678", "12345"}

\* updateInfo of controller/user.ts: the caller's own profile fields, after
\* the format checks
updateInfo(caller, phone) ==
    /\ IF ~isAuth(caller)
       THEN /\ last' = Resp("updateInfo", "", 401, "Unauthorized")
            /\ users' = users
       ELSE IF Len(phone) # 10
       THEN /\ last' = Resp("updateInfo", "", 400, "ValidationError")
            /\ users' = users
       ELSE IF caller.userId \notin Ids
       THEN /\ last' = Resp("updateInfo", "", 404, "NotFound")
            /\ users' = users
       ELSE /\ users' = findByIdAndUpdate(caller.userId,
                                          [users[caller.userId] EXCEPT !.phone = phone])
            /\ last' = [Resp("updateInfo", "", 200, "Ok") EXCEPT !.userId = caller.userId]
    /\ UNCHANGED <<nextId, now, tokens, inflight>>

\* updateRole of controller/user.ts: the caller's own role becomes newRole
\* (updateOne and findByIdAndUpdate, neither with validators), and a new
\* session token carries it
updateRole(caller, newRole) ==
    /\ IF ~isAuth(caller)
       THEN /\ last' = Resp("updateRole", "", 401, "Unauthorized")
            /\ UNCHANGED <<users, tokens>>
       ELSE IF caller.userId \notin Ids
       THEN /\ last' = Resp("updateRole", "", 404, "NotFound")
            /\ UNCHANGED <<users, tokens>>
       ELSE LET tok == generateToken(caller.userId, newRole, "updateRole")
            IN /\ users' = [users EXCEPT ![caller.userId].role = newRole]
               /\ tokens' = tokens \cup {tok}
               /\ last' = [Resp("updateRole", "", 200, "Ok") EXCEPT
                             !.userId = caller.userId, !.token = tok]
    /\ UNCHANGED <<nextId, now, inflight>>

\* getUsers of controller/user.ts: the page of users, for any session
getUsersUser(caller) ==
    /\ IF ~isAuth(caller)
       THEN last' = Resp("getUsersUser", "", 401, "Unauthorized")
       ELSE last' = Resp("getUsersUser", "", 200, "Ok")
    /\ UNCHANGED <<users, nextId, now, tokens, inflight>>

\* adminUpdateUserInfo of controller/user.ts: the allowed keys of the body
\* (email and role among them, oauthProviders not), the format checks, the
\* role test, then findByIdAndUpdate
adminUpdateUserInfo(caller, id, body) ==
    LET updateData == [body EXCEPT !.clearLinks = FALSE]
    IN /\ IF updateData.email # NotGiven /\ updateData.email \notin Emails \cup {UpperEmail}
          THEN /\ last' = Resp("adminUpdateUserInfo", "", 400, "ValidationError")
               /\ users' = users
          ELSE IF ~isAuth(caller)
          THEN /\ last' = Resp("adminUpdateUserInfo", "", 401, "Unauthorized")
               /\ users' = users
          ELSE IF ~isAdminOrSuperuser(caller.role)
          THEN /\ last' = Resp("adminUpdateUserInfo", "", 403, "Forbidden")
               /\ users' = users
          ELSE IF id \notin Ids
          THEN /\ last' = Resp("adminUpdateUserInfo", "", 404, "NotFound")
               /\ users' = users
          ELSE IF updateRefused(id, updateData)
          THEN /\ last' = Resp("adminUpdateUserInfo", "", 500, "SystemError")
               /\ users' = users
          ELSE /\ users' = [users EXCEPT ![id] = applyUpdate(@, updateData)]
               /\ last' = [Resp("adminUpdateUserInfo", "", 200, "Ok") EXCEPT !.userId = id]
       /\ UNCHANGED <<nextId, now, tokens, inflight>>

\* adminDeleteUser of controller/user.ts
adminDeleteUser(caller, id) ==
    /\ IF ~isAuth(caller)
       THEN /\ last' = Resp("adminDeleteUser", "", 401, "Unauthorized")
            /\ users' = users
       ELSE IF ~isAdminOrSuperuser(caller.role)
       THEN /\ last' = Resp("adminDeleteUser", "", 403, "Forbidden")
            /\ users' = users
       ELSE IF id \notin Ids
       THEN /\ last' = Resp("adminDeleteUser", "", 404, "NotFound")
            /\ users' = users
       ELSE /\ users' = without(id)
            /\ last' = [Resp("adminDeleteUser", "", 200, "Ok") EXCEPT !.userId = id]
    /\ UNCHANGED <<nextId, now, tokens, inflight>>

\* getUsers of part_007
getUsers(caller) ==
    /\ IF ~isAuth(caller) \/ ~isAdminOrSuperuser(caller.role)
       THEN last' = Resp("getUsers", "", 403, "Forbidden")
       ELSE last' = Resp("getUsers", "", 200, "Ok")
    /\ UNCHANGED <<users, nextId, now, tokens, inflight>>

\* updateUser of part_007: the body without the password and code fields
\* goes to findByIdAndUpdate as it came
updateUser(caller, id, body) ==
    /\ IF ~isAuth(caller) \/ ~isAdminOrSuperuser(caller.role)
       THEN /\ last' = Resp("updateUser", "", 403, "Forbidden")
            /\ users' = users
       ELSE IF id \in Ids /\ updateRefused(id, body)
       THEN /\ last' = Resp("updateUser", "", 500, "SystemError")
            /\ users' = users
       ELSE IF id \notin Ids
       THEN /\ last' = Resp("updateUser", "", 404, "NotFound")
            /\ users' = users
       ELSE /\ users' = [users EXCEPT ![id] = applyUpdate(@, body)]
            /\ last' = [Resp("updateUser", "", 200, "Ok") EXCEPT !.userId = id]
    /\ UNCHANGED <<nextId, now, tokens, inflight>>

\* deleteUser of part_007
deleteUser(caller, id) ==
    /\ IF ~isAuth(caller) \/ ~isAdminOrSuperuser(caller.role)
       THEN /\ last' = Resp("deleteUser", "", 403, "Forbidden")
            /\ users' = users
       ELSE IF id \notin Ids
       THEN /\ last' = Resp("deleteUser", "", 404, "NotFound")
            /\ users' = users
       ELSE /\ users' = without(id)
            /\ last' = [Resp("deleteUser", "", 200, "Ok") EXCEPT !.userId = id]
    /\ UNCHANGED <<nextId, now, tokens, inflight>>

----------------------------------------------------------------------------
(* The password and code flows on one account *)

Init ==
    /\ users = <<>>
    /\ nextId = 1
    /\ now = 0
    /\ tokens = {}
    /\ last = Resp("none", "", 0, "none")
    /\ inflight = <<>>

\* the account of the flows, and an address nobody registered
FlowEmail == "a@x.com"
OtherEmail == "b@x.com"

\* the code the generator draws in these flows; callers may supply any of Codes
IssuedCode == CHOOSE c \in Codes : \A d \in Codes : c <= d

\* the requests of the flows: well-formed ones, and one of each kind the
\* validations refuse
RegisterInputs ==
    ({FlowEmail} \X {"secret1", "short", ""}) \cup {<<BadEmail, "secret1">>, <<"", "secret1">>}
LoginInputs ==
    ({FlowEmail, OtherEmail} \X {"secret1", "newpass1"}) \cup {<<"", "secret1">>}
ResetInputs ==
    ({FlowEmail} \X Codes \X (Passwords \cup {""})) \cup {<<OtherEmail, IssuedCode, "newpass1">>}

Next ==
    \/ Tick
    \/ \E r \in RegisterInputs, m \in BOOLEAN : register(r[1], r[2], IssuedCode, m)
    \/ \E p \in {"secret1", "short"}, same \in BOOLEAN, r \in {"user", "root"} :
          signup(FlowEmail, p, IF same THEN p ELSE "", r, IssuedCode)
    \/ \E r \in LoginInputs : login(r[1], r[2])
    \/ \E e \in {FlowEmail, OtherEmail}, p \in {"secret1", "newpass1"} : loginUser(e, p)
    \/ \E e \in {FlowEmail, OtherEmail}, c \in Codes : verifyEmail(e, c)
    \/ \E e \in {FlowEmail, OtherEmail}, m \in BOOLEAN :
          resendVerification(e, IssuedCode, m)
    \/ \E e \in {FlowEmail, OtherEmail}, m \in BOOLEAN :
          requestPasswordReset(e, IssuedCode, m)
    \/ \E r \in ResetInputs : resetPassword(r[1], r[2], r[3])
    \/ \E e \in {FlowEmail, OtherEmail}, c \in Codes : forget(e, c, "newpass1")

Spec == Init /\ [][Next]_vars

----------------------------------------------------------------------------
(* Password accounts and the Google callback on two addresses *)

\* the profiles of the callback requests: the photo is read only where the
\* callback creates an account, so one profile without a photo is enough
OAuthInputs == {profile \in Profiles : profile.photo \/ profile.email = OtherEmail}

NextOAuth ==
    \/ \E m \in BOOLEAN : register(FlowEmail, "secret1", IssuedCode, m)
    \/ verifyEmail(FlowEmail, IssuedCode)
    \/ \E e \in Emails : login(e, "secret1")
    \/ \E e \in Emails : loginUser(e, "secret1")
    \/ \E profile \in OAuthInputs : googleCallback(profile)
    \/ \E profile \in OAuthInputs : googleCallbackV0(profile)

SpecOAuth == Init /\ [][NextOAuth]_vars

(* Callbacks that arrive at different times *)

\* the clock advances at most ResolveTicks times in these runs
ResolveTicks == 1

NextResolve ==
    \/ /\ Cardinality({t \in Instants : t < now}) < ResolveTicks
       /\ Tick
    \/ register(OtherEmail, "secret1", IssuedCode, TRUE)
    \/ \E profile \in OAuthInputs : googleCallback(profile)
    \/ \E profile \in OAuthInputs : googleCallbackV0(profile)

SpecResolve == Init /\ [][NextResolve]_vars

(* Accounts, sessions and the administrative handlers *)

\* the store hands out at most MaxIds ids
MaxIds == 2

\* the sessions a request may carry: a token issued so far, or none
Callers == tokens \cup {NoToken}

AdminProfiles == [id : {"g123"}, email : {FlowEmail, UpperEmail}, photo : {TRUE}]
\* the bodies of the update requests here: one field each
AdminBodies ==
    {body \in UpdateBodies :
        /\ Cardinality({body.email, body.role} \ {NotGiven}) + (IF body.clearLinks THEN 1 ELSE 0) = 1
        /\ body.email \in {NotGiven, "b@x.com", UpperEmail}
        /\ body.role \in {NotGiven, "admin", "root"}}

NextAdmin ==
    \/ /\ nextId <= MaxIds
       /\ \E e \in {FlowEmail, UpperEmail} : register(e, "secret1", IssuedCode, TRUE)
    \/ /\ nextId <= MaxIds
       /\ \E e \in {FlowEmail, UpperEmail} :
             signup(e, "secret1", "secret1", "admin", IssuedCode)
    \/ /\ nextId <= MaxIds
       /\ \E profile \in AdminProfiles : googleCallback(profile)
    \/ \E caller \in Callers : updateRole(caller, "admin")
    \/ \E caller \in Callers : getUsersUser(caller)
    \/ \E caller \in Callers, id \in 1..MaxIds, body \in AdminBodies :
          adminUpdateUserInfo(caller, id, body)
    \/ \E caller \in Callers, id \in 1..MaxIds : adminDeleteUser(caller, id)
    \/ \E caller \in Callers : getUsers(caller)
    \/ \E caller \in Callers, id \in 1..MaxIds, body \in AdminBodies :
          updateUser(caller, id, body)
    \/ \E caller \in Callers, id \in 1..MaxIds : deleteUser(caller, id)

SpecAdmin == Init /\ [][NextAdmin]_vars

(* Every flow next to the administrative delete *)

FrameProfile == [id |-> "g123", email |-> FlowEmail, photo |-> TRUE]

\* the accounts the store creates in these runs
FrameAccounts == 1

NextFrame ==
    \/ now < COOLDOWN /\ Tick
    \/ /\ nextId <= FrameAccounts
       /\ \E m \in BOOLEAN : register(FlowEmail, "secret1", IssuedCode, m)
    \/ login(FlowEmail, "secret1")
    \/ loginUser(FlowEmail, "secret1")
    \/ verifyEmail(FlowEmail, IssuedCode)
    \/ resendVerification(FlowEmail, IssuedCode, TRUE)
    \/ requestPasswordReset(FlowEmail, IssuedCode, TRUE)
    \/ resetPassword(FlowEmail, IssuedCode, "secret1")
    \/ /\ nextId <= FrameAccounts
       /\ googleCallback(FrameProfile)
    \/ \E caller \in Callers : updateRole(caller, "admin")
    \/ \E caller \in Callers, phone \in Phones : updateInfo(caller, phone)
    \/ \E caller \in Callers, id \in 1..FrameAccounts : adminDeleteUser(caller, id)
    \/ \E caller \in Callers, id \in 1..FrameAccounts : deleteUser(caller, id)

SpecFrame == Init /\ [][NextFrame]_vars

(* What an account holder can do to the own account *)

NextSelf ==
    \/ Tick
    \/ \E m \in BOOLEAN : register(FlowEmail, "secret1", IssuedCode, m)
    \/ login(FlowEmail, "secret1")
    \/ \E c \in Codes : verifyEmail(FlowEmail, c)
    \/ resendVerification(FlowEmail, IssuedCode, TRUE)
    \/ requestPasswordReset(FlowEmail, IssuedCode, TRUE)
    \/ \E c \in Codes : resetPassword(FlowEmail, c, "newpass1")
    \/ googleCallback(FrameProfile)
    \/ \E caller \in Callers, phone \in Phones : updateInfo(caller, phone)

SpecSelf == Init /\ [][NextSelf]_vars

(* The password of one account, next to every handler that saves it *)

\* the bodies of the administrative updates here: a role, or an empty
\* oauthProviders array
PasswordBodies ==
    {body \in UpdateBodies :
        /\ body.email = NotGiven
        /\ \/ body.role = "admin" /\ ~body.clearLinks
           \/ body.role = NotGiven /\ body.clearLinks}

NextPassword ==
    \/ Tick
    \/ register(FlowEmail, "secret1", IssuedCode, TRUE)
    \/ verifyEmail(FlowEmail, IssuedCode)
    \/ requestPasswordReset(FlowEmail, IssuedCode, TRUE)
    \/ \E c \in Codes : resetPassword(FlowEmail, c, "newpass1")
    \/ \E c \in Codes : forget(FlowEmail, c, "newpass1")
    \/ googleCallback(FrameProfile)
    \/ \E caller \in Callers : updateInfo(caller, "0912345678")
    \/ \E caller \in Callers : updateRole(caller, "admin")
    \/ \E caller \in Callers, body \in PasswordBodies : adminUpdateUserInfo(caller, 1, body)
    \/ \E caller \in Callers, body \in PasswordBodies : updateUser(caller, 1, body)

SpecPassword == Init /\ [][NextPassword]_vars

(* Codes issued one after the other: register mails IssuedCode, and the
   generator may draw any code for the later ones *)

NextCodes ==
    \/ Tick
    \/ register(FlowEmail, "secret1", IssuedCode, TRUE)
    \/ \E c \in Codes : verifyEmail(FlowEmail, c)
    \/ \E c \in Codes, m \in BOOLEAN : resendVerification(FlowEmail, c, m)
    \/ \E c \in Codes, m \in BOOLEAN : requestPasswordReset(FlowEmail, c, m)
    \/ \E c \in Codes : resetPassword(FlowEmail, c, "newpass1")

SpecCodes == Init /\ [][NextCodes]_vars

(* An account on its way to a verified address.  The holder knows the codes
   of the mails that arrived: a mail that is sent carries IssuedCode, a
   mail that is lost carried LostCode, and verifyEmail is called with
   IssuedCode.  Mails are lost in the first cooldown period only. *)

LostCode == CHOOSE c \in Codes : c # IssuedCode

NextUnstuck ==
    \/ Tick
    \/ /\ now < COOLDOWN
       /\ \/ register(FlowEmail, "secret1", IssuedCode, TRUE)
          \/ register(FlowEmail, "secret1", LostCode, FALSE)
    \/ resendVerification(FlowEmail, IssuedCode, TRUE)
    \/ /\ now < COOLDOWN
       /\ resendVerification(FlowEmail, LostCode, FALSE)
    \/ verifyEmail(FlowEmail, IssuedCode)

\* time passes, and the holder keeps asking for a code and keeps supplying
\* the code of the last mail that arrived
SpecUnstuck ==
    /\ Init
    /\ [][NextUnstuck]_vars
    /\ WF_vars(Tick)
    /\ WF_vars(resendVerification(FlowEmail, IssuedCode, TRUE))
    /\ WF_vars(verifyEmail(FlowEmail, IssuedCode))

\* the code fields of a document are set (the handlers test both)
activeVerification(user) ==
    user.verificationToken # NoCode /\ user.verificationTokenExpires # Absent
activeReset(user) ==
    user.passwordResetToken # NoCode /\ user.passwordResetExpires # Absent

\* a new password resetPassword accepts
WellFormed(p) == p # "" /\ Len(p) >= MIN_PASSWORD

----------------------------------------------------------------------------
(* Requests that overlap.  A handler runs up to an await, and other
   requests run before it resumes: each handler below is cut in two at the
   await of its lookup, the steps being the lookup and the rest. *)

\* the requests that may overlap
MaxReqs == 2
Reqs == 1..MaxReqs

\* the result of a findOne that found nothing
NoUser == [email |-> ""]

\* findOne({ email }): the _id of the document, 0 where there is none
lookupId(email) == IF findByEmail(email) = {} THEN 0 ELSE CHOOSE i \in findByEmail(email) : TRUE

\* the request r awaits its lookup: the handler resumes with the document
\* as the store holds it now
awaitFind(r, op, email) ==
    /\ r \notin DOMAIN inflight
    /\ inflight' = (r :> [op |-> op, pc |-> "found", email |-> email, at |-> now,
                          id |-> lookupId(email),
                          user |-> IF lookupId(email) = 0 THEN NoUser
                                   ELSE users[lookupId(email)]]) @@ inflight
    /\ UNCHANGED <<users, nextId, now, tokens, last>>

\* the request r has resumed after its lookup in handler op
resumed(r, op) == r \in DOMAIN inflight /\ inflight[r].op = op /\ inflight[r].pc = "found"

\* the handler of request r answers
respond(r, resp) ==
    /\ inflight' = [inflight EXCEPT ![r] = [op |-> @.op, pc |-> "done", email |-> @.email,
                                           at |-> now, resp |-> resp]]
    /\ last' = resp

\* request r has been answered with kind
answered(r, kind) ==
    r \in DOMAIN inflight /\ inflight[r].pc = "done" /\ inflight[r].resp.kind = kind

\* a save that does not reach the store
saveLost(id, hashField, expiryField, doc) == users

\* document.save() of a document loaded earlier: the update sets the
\* modified paths of the stored document, whatever the other paths hold now
\* (the schema has versionKey: false)
saveCode(id, hashField, expiryField, doc) ==
    [users EXCEPT ![id] = [@ EXCEPT ![hashField] = doc[hashField],
                                    ![expiryField] = doc[expiryField],
                                    !.lastVerificationAttempt = doc.lastVerificationAttempt]]

\* resendVerification up to the await of User.findOne
resendVerificationFind(r, email) == awaitFind(r, "resendVerification", email)

\* resendVerification from there: the tests on the document it loaded, then
\* createVerificationToken and save
resendVerificationSave(r, code) ==
    /\ resumed(r, "resendVerification")
    /\ LET req == inflight[r]
           user == req.user
       IN IF req.id = 0
          THEN /\ respond(r, Resp("resendVerification", req.email, 404, "NotFound"))
               /\ users' = users
          ELSE IF user.isEmailVerified
          THEN /\ respond(r, Resp("resendVerification", req.email, 400, "AlreadyVerified"))
               /\ users' = users
          ELSE IF inCooldown(user, now)
          THEN /\ respond(r, [Resp("resendVerification", req.email, 400, "Cooldown") EXCEPT
                                !.userId = req.id])
               /\ users' = users
          ELSE IF req.id \notin Ids
          THEN /\ respond(r, Resp("resendVerification", req.email, 500, "SystemError"))
               /\ users' = users
          ELSE /\ users' = saveCode(req.id, "verificationToken", "verificationTokenExpires",
                                    createVerificationToken(user, code, now))
               /\ respond(r, [Resp("resendVerification", req.email, 200, "Ok") EXCEPT
                                !.userId = req.id, !.logged = code])
    /\ UNCHANGED <<nextId, now, tokens>>

\* requestPasswordReset up to the await of User.findOne; now is read before
requestPasswordResetFind(r, email) == awaitFind(r, "requestPasswordReset", email)

\* requestPasswordReset from there: the tests on the document it loaded
\* with the time it read, then the attempt time, the reset code and save
requestPasswordResetSave(r, code) ==
    /\ resumed(r, "requestPasswordReset")
    /\ LET req == inflight[r]
           existingUser == req.user
       IN IF req.id = 0
          THEN /\ respond(r, Resp("requestPasswordReset", req.email, 400, "NotFound"))
               /\ users' = users
          ELSE IF ~existingUser.isEmailVerified
          THEN /\ respond(r, Resp("requestPasswordReset", req.email, 400, "EmailNotVerified"))
               /\ users' = users
          ELSE IF inCooldown(existingUser, req.at)
          THEN /\ respond(r, [Resp("requestPasswordReset", req.email, 400, "Cooldown") EXCEPT
                                !.userId = req.id])
               /\ users' = users
          ELSE IF req.id \notin Ids
          THEN /\ respond(r, Resp("requestPasswordReset", req.email, 500, "SystemError"))
               /\ users' = users
          ELSE /\ users' = saveCode(req.id, "passwordResetToken", "passwordResetExpires",
                                    createPasswordResetToken(
                                       [existingUser EXCEPT !.lastVerificationAttempt = req.at],
                                       code, now))
               /\ respond(r, [Resp("requestPasswordReset", req.email, 200, "Ok") EXCEPT
                                !.userId = req.id])
    /\ UNCHANGED <<nextId, now, tokens>>

NextIssueRace ==
    \/ now < COOLDOWN /\ Tick
    \/ register(FlowEmail, "secret1", IssuedCode, TRUE)
    \/ verifyEmail(FlowEmail, IssuedCode)
    \/ \E r \in Reqs : resendVerificationFind(r, FlowEmail)
    \/ \E r \in Reqs : resendVerificationSave(r, IssuedCode)
    \/ \E r \in Reqs : requestPasswordResetFind(r, FlowEmail)
    \/ \E r \in Reqs : requestPasswordResetSave(r, IssuedCode)

SpecIssueRace == Init /\ [][NextIssueRace]_vars

\* verifyEmail up to the await of User.findOne
verifyEmailFind(r, email) == awaitFind(r, "verifyEmail", email)

\* verifyEmail from there: the tests on the document it loaded, the
\* comparison, then the three fields and save
verifyEmailSave(r, code) ==
    /\ resumed(r, "verifyEmail")
    /\ LET req == inflight[r]
           user == req.user
           kind == IF req.id = 0 THEN "NotFound"
                   ELSE IF ~activeVerification(user) THEN "NoActiveCode"
                   ELSE IF user.verificationTokenExpires < now THEN "CodeExpired"
                   ELSE IF ~bcryptCompare(Plain(code), user.verificationToken)
                   THEN "InvalidCode"
                   ELSE IF req.id \notin Ids THEN "SystemError"
                   ELSE "Ok"
       IN IF kind = "Ok"
          THEN /\ users' = [users EXCEPT ![req.id] = consumeVerification(@)]
               /\ respond(r, [Resp("verifyEmail", req.email, 200, "Ok") EXCEPT
                                !.userId = req.id, !.code = code])
          ELSE /\ users' = users
               /\ respond(r, [Resp("verifyEmail", req.email,
                                   CASE kind = "NotFound" -> 404
                                     [] kind = "SystemError" -> 500
                                     [] OTHER -> 400, kind) EXCEPT !.code = code])
    /\ UNCHANGED <<nextId, now, tokens>>

\* resetPassword up to the await of User.findOne, for a password of
\* sufficient length
resetPasswordFind(r, email) == awaitFind(r, "resetPassword", email)

\* resetPassword from there: the tests on the document it loaded, the
\* comparison, then the password, the two fields and save
resetPasswordSave(r, code, newPassword) ==
    /\ resumed(r, "resetPassword")
    /\ WellFormed(newPassword)
    /\ LET req == inflight[r]
           user == req.user
           kind == IF req.id = 0 THEN "NotFound"
                   ELSE IF ~activeReset(user) THEN "NoActiveCode"
                   ELSE IF user.passwordResetExpires < now THEN "CodeExpired"
                   ELSE IF ~bcryptCompare(Plain(code), user.passwordResetToken)
                   THEN "InvalidCode"
                   ELSE IF req.id \notin Ids THEN "SystemError"
                   ELSE "Ok"
       IN IF kind = "Ok"
          THEN /\ users' = [users EXCEPT ![req.id] = preSave(consumeReset(@, newPassword), TRUE)]
               /\ respond(r, [Resp("resetPassword", req.email, 200, "Ok") EXCEPT
                                !.userId = req.id, !.code = code, !.logged = code])
          ELSE /\ users' = users
               /\ respond(r, [Resp("resetPassword", req.email,
                                   CASE kind = "NotFound" -> 404
                                     [] kind = "SystemError" -> 500
                                     [] OTHER -> 400, kind) EXCEPT !.code = code])
    /\ UNCHANGED <<nextId, now, tokens>>

\* one account, one verification code and one reset code, and the consume
\* requests that overlap
NextConsumeRace ==
    \/ now < COOLDOWN /\ Tick
    \/ register(FlowEmail, "secret1", IssuedCode, TRUE)
    \/ verifyEmail(FlowEmail, IssuedCode)
    \/ requestPasswordReset(FlowEmail, IssuedCode, TRUE)
    \/ \E r \in Reqs : verifyEmailFind(r, FlowEmail)
    \/ \E r \in Reqs, c \in Codes : verifyEmailSave(r, c)
    \/ \E r \in Reqs : resetPasswordFind(r, FlowEmail)
    \/ \E r \in Reqs, p \in {"secret1", "newpass1"} : resetPasswordSave(r, IssuedCode, p)

SpecConsumeRace == Init /\ [][NextConsumeRace]_vars

\* the verify callback of the strategy up to the await of its first lookup,
\* by provider and provider id
googleCallbackFind(r, profile) ==
    /\ r \notin DOMAIN inflight
    /\ LET i == IF findByProvider(profile.id) = {} THEN 0
                ELSE CHOOSE i \in findByProvider(profile.id) : TRUE
       IN inflight' = (r :> [op |-> "googleCallback", pc |-> "byProvider",
                             profile |-> profile, email |-> profile.email, at |-> now,
                             id |-> i, user |-> IF i = 0 THEN NoUser ELSE users[i]])
                      @@ inflight
    /\ UNCHANGED <<users, nextId, now, tokens, last>>

\* from there, where the first lookup found nothing, up to the await of the
\* second lookup, by e-mail
googleCallbackFindEmail(r) ==
    /\ r \in DOMAIN inflight
    /\ inflight[r].op = "googleCallback"
    /\ inflight[r].pc = "byProvider"
    /\ inflight[r].id = 0
    /\ LET profile == inflight[r].profile
       IN IF profile.email = NoEmail
          THEN /\ respond(r, Resp("googleCallback", profile.email, 500, "MissingProviderEmail"))
          ELSE /\ inflight' = [inflight EXCEPT ![r] =
                                 [@ EXCEPT !.pc = "byEmail",
                                           !.id = lookupId(profile.email),
                                           !.user = IF lookupId(profile.email) = 0 THEN NoUser
                                                    ELSE users[lookupId(profile.email)]]]
               /\ last' = last
    /\ UNCHANGED <<users, nextId, now, tokens>>

\* from the lookup that found an account, or from the second lookup: push
\* the link onto the loaded document and save it (an update that pushes the
\* new element onto the stored array), or create the account (which the
\* unique index on email refuses when the address has been taken since),
\* then googleLogin
googleCallbackSave(r) ==
    /\ r \in DOMAIN inflight
    /\ inflight[r].op = "googleCallback"
    /\ inflight[r].pc = "byEmail" \/ (inflight[r].pc = "byProvider" /\ inflight[r].id # 0)
    /\ LET req == inflight[r]
           profile == req.profile
           tok(i) == generateToken(i, NoRole, "oauth")
           ok(i) == [Resp("googleCallback", profile.email, 200, "Ok") EXCEPT
                       !.userId = i, !.token = tok(i)]
       IN IF req.id # 0
          THEN IF existingProvider(req.user, profile.id)
               THEN /\ UNCHANGED <<users, nextId>>
                    /\ tokens' = tokens \cup {tok(req.id)}
                    /\ respond(r, ok(req.id))
               ELSE IF req.id \notin Ids
               THEN /\ UNCHANGED <<users, nextId, tokens>>
                    /\ respond(r, Resp("googleCallback", profile.email, 500, "SystemError"))
               ELSE /\ users' = [users EXCEPT ![req.id].oauthProviders =
                                    Append(@, googleLink(profile.id))]
                    /\ nextId' = nextId
                    /\ tokens' = tokens \cup {tok(req.id)}
                    /\ respond(r, ok(req.id))
          ELSE IF ~profile.photo
          THEN /\ UNCHANGED <<users, nextId, tokens>>
               /\ respond(r, Resp("googleCallback", profile.email, 500, "MissingProviderPhoto"))
          ELSE IF findByEmail(profile.email) # {}
          THEN /\ UNCHANGED <<users, nextId, tokens>>
               /\ respond(r, Resp("googleCallback", profile.email, 500, "SystemError"))
          ELSE /\ users' = (nextId :> newOAuthUser(emailSetter(profile.email), profile.id))
                           @@ users
               /\ nextId' = nextId + 1
               /\ tokens' = tokens \cup {tok(nextId)}
               /\ respond(r, ok(nextId))
    /\ UNCHANGED now

\* the callbacks of one Google identity that overlap, with and without a
\* password account of its address
RaceProfiles == [id : {"g123"}, email : {FlowEmail, NoEmail}, photo : BOOLEAN]

NextOAuthRace ==
    \/ register(FlowEmail, "secret1", IssuedCode, TRUE)
    \/ \E r \in Reqs, profile \in RaceProfiles : googleCallbackFind(r, profile)
    \/ \E r \in Reqs : googleCallbackFindEmail(r)
    \/ \E r \in Reqs : googleCallbackSave(r)

SpecOAuthRace == Init /\ [][NextOAuthRace]_vars

\* register, for a well-formed request, up to the await of User.findOne
registerFind(r, email) ==
    /\ email \in Emails \cup {UpperEmail}
    /\ awaitFind(r, "register", email)

\* register from there: the duplicate answer when the lookup found an
\* account; else User.create, the verification code, the mail and the token.
\* When the address has been taken since the lookup, the unique index
\* refuses the insert and the rejection goes to the error middleware, which
\* answers an error that is not operational with 500 SYSTEM_ERROR
registerCreate(r, password, code) ==
    /\ resumed(r, "register")
    /\ Len(password) >= MIN_PASSWORD
    /\ LET req == inflight[r]
       IN IF req.id # 0
          THEN /\ respond(r, Resp("register", req.email, 400, "DuplicateEmail"))
               /\ UNCHANGED <<users, nextId, tokens>>
          ELSE IF findByEmail(req.email) # {}
          THEN /\ respond(r, Resp("register", req.email, 500, "SystemError"))
               /\ UNCHANGED <<users, nextId, tokens>>
          ELSE LET doc == createVerificationToken(newUser(req.email, password, "user"), code, now)
                   tok == generateToken(nextId, doc.role, "password")
               IN /\ users' = (nextId :> doc) @@ users
                  /\ nextId' = nextId + 1
                  /\ tokens' = tokens \cup {tok}
                  /\ respond(r, [Resp("register", req.email, 201, "Ok") EXCEPT
                                   !.userId = nextId, !.token = tok, !.logged = code])
    /\ UNCHANGED now

\* the registrations that overlap, for two spellings of one address and
\* another address
NextRegisterRace ==
    \/ \E r \in Reqs, e \in {FlowEmail, UpperEmail, OtherEmail} : registerFind(r, e)
    \/ \E r \in Reqs, p \in {"secret1", "newpass1"} : registerCreate(r, p, IssuedCode)

SpecRegisterRace == Init /\ [][NextRegisterRace]_vars

(* The issuing handlers save by save: every await of a save and of the
   mail is a step, for one issuing request at a time *)

\* no other request is between two awaits
alone(r) ==
    /\ r \notin DOMAIN inflight
    /\ \A q \in DOMAIN inflight : inflight[q].pc = "done"

\* request r is at position pc of handler op
at(r, op, pc) == r \in DOMAIN inflight /\ inflight[r].op = op /\ inflight[r].pc = pc

\* the handler of r goes on to position pc
goto(r, pc) == inflight' = [inflight EXCEPT ![r].pc = pc]

\* register up to the await of createVerificationToken: the validations,
\* the lookup and User.create
registerCreated(r, email, password, code) ==
    /\ alone(r)
    /\ email \in Emails \cup {UpperEmail}
    /\ Len(password) >= MIN_PASSWORD
    /\ findByEmail(email) = {}
    /\ users' = (nextId :> newUser(email, password, "user")) @@ users
    /\ nextId' = nextId + 1
    /\ inflight' = (r :> [op |-> "register", pc |-> "created", email |-> email,
                          at |-> now, id |-> nextId, code |-> code]) @@ inflight
    /\ UNCHANGED <<now, tokens, last>>

\* register: createVerificationToken and its save
registerIssued(r) ==
    /\ at(r, "register", "created")
    /\ inflight[r].id \in Ids
    /\ users' = saveCode(inflight[r].id, "verificationToken", "verificationTokenExpires",
                         createVerificationToken(users[inflight[r].id], inflight[r].code, now))
    /\ goto(r, "mailing")
    /\ UNCHANGED <<nextId, now, tokens, last>>

\* resendVerification up to the await of createVerificationToken: the
\* lookup and the tests passed
resendVerificationChecked(r, email, code) ==
    /\ alone(r)
    /\ lookupId(email) # 0
    /\ ~users[lookupId(email)].isEmailVerified
    /\ ~inCooldown(users[lookupId(email)], now)
    /\ inflight' = (r :> [op |-> "resendVerification", pc |-> "checked", email |-> email,
                          at |-> now, id |-> lookupId(email), code |-> code]) @@ inflight
    /\ UNCHANGED <<users, nextId, now, tokens, last>>

\* resendVerification: createVerificationToken and its save
resendVerificationIssued(r) ==
    /\ at(r, "resendVerification", "checked")
    /\ inflight[r].id \in Ids
    /\ users' = saveCode(inflight[r].id, "verificationToken", "verificationTokenExpires",
                         createVerificationToken(users[inflight[r].id], inflight[r].code, now))
    /\ goto(r, "issued")
    /\ UNCHANGED <<nextId, now, tokens, last>>

\* resendVerification: lastVerificationAttempt = new Date() and save
resendVerificationStamped(r) ==
    /\ at(r, "resendVerification", "issued")
    /\ inflight[r].id \in Ids
    /\ users' = [users EXCEPT ![inflight[r].id].lastVerificationAttempt = now]
    /\ goto(r, "mailing")
    /\ UNCHANGED <<nextId, now, tokens, last>>

\* requestPasswordReset up to the await of its first save: the lookup and
\* the tests passed
requestPasswordResetChecked(r, email, code) ==
    /\ alone(r)
    /\ lookupId(email) # 0
    /\ users[lookupId(email)].isEmailVerified
    /\ ~inCooldown(users[lookupId(email)], now)
    /\ inflight' = (r :> [op |-> "requestPasswordReset", pc |-> "checked", email |-> email,
                          at |-> now, id |-> lookupId(email), code |-> code]) @@ inflight
    /\ UNCHANGED <<users, nextId, now, tokens, last>>

\* requestPasswordReset: lastVerificationAttempt = now (as read at the
\* start) and save
requestPasswordResetStamped(r) ==
    /\ at(r, "requestPasswordReset", "checked")
    /\ inflight[r].id \in Ids
    /\ users' = [users EXCEPT ![inflight[r].id].lastVerificationAttempt = inflight[r].at]
    /\ goto(r, "stamped")
    /\ UNCHANGED <<nextId, now, tokens, last>>

\* requestPasswordReset: createPasswordResetToken and its save
requestPasswordResetIssued(r) ==
    /\ at(r, "requestPasswordReset", "stamped")
    /\ inflight[r].id \in Ids
    /\ users' = saveCode(inflight[r].id, "passwordResetToken", "passwordResetExpires",
                         createPasswordResetToken(users[inflight[r].id], inflight[r].code, now))
    /\ goto(r, "mailing")
    /\ UNCHANGED <<nextId, now, tokens, last>>

\* a mail step that undoes the code when the mailer rejects: the variant
\* the no-rollback property must tell apart from sendMail
sendMailUndoing(r, mailSent) ==
    /\ r \in DOMAIN inflight
    /\ inflight[r].pc = "mailing"
    /\ ~mailSent
    /\ respond(r, [Resp(inflight[r].op, inflight[r].email, 500, "SystemError") EXCEPT
                     !.userId = inflight[r].id])
    /\ users' = [users EXCEPT ![inflight[r].id] =
                    [@ EXCEPT !.verificationToken = NoCode,
                              !.verificationTokenExpires = Absent,
                              !.passwordResetToken = NoCode,
                              !.passwordResetExpires = Absent,
                              !.lastVerificationAttempt = Absent]]
    /\ UNCHANGED <<nextId, now, tokens>>

\* the await of sendVerificationEmail / sendPasswordResetEmail, which
\* resolves or rejects, and the answer
sendMail(r, mailSent) ==
    /\ r \in DOMAIN inflight
    /\ inflight[r].pc = "mailing"
    /\ LET req == inflight[r]
           tok == generateToken(req.id, "user", "password")
       IN IF ~mailSent
          THEN /\ respond(r, [Resp(req.op, req.email, 500,
                                   IF req.op = "requestPasswordReset"
                                   THEN "NotificationFailed" ELSE "SystemError") EXCEPT
                                !.userId = req.id])
               /\ tokens' = tokens
          ELSE /\ respond(r, [Resp(req.op, req.email,
                                   IF req.op = "register" THEN 201 ELSE 200, "Ok") EXCEPT
                                !.userId = req.id,
                                !.token = IF req.op = "register" THEN tok ELSE NoToken])
               /\ tokens' = IF req.op = "register" THEN tokens \cup {tok} ELSE tokens
    /\ UNCHANGED <<users, nextId, now>>

\* the code is consumed by who received it: no mail is outstanding
NextMail ==
    \/ now < COOLDOWN /\ Tick
    \/ /\ \A q \in DOMAIN inflight : inflight[q].pc = "done"
       /\ verifyEmail(FlowEmail, IssuedCode)
    \/ \E r \in Reqs, e \in {FlowEmail, OtherEmail} :
          registerCreated(r, e, "secret1", IssuedCode)
    \/ \E r \in Reqs : registerIssued(r)
    \/ \E r \in Reqs, c \in Codes : resendVerificationChecked(r, FlowEmail, c)
    \/ \E r \in Reqs : resendVerificationIssued(r)
    \/ \E r \in Reqs : resendVerificationStamped(r)
    \/ \E r \in Reqs, c \in Codes : requestPasswordResetChecked(r, FlowEmail, c)
    \/ \E r \in Reqs : requestPasswordResetStamped(r)
    \/ \E r \in Reqs : requestPasswordResetIssued(r)
    \/ \E r \in Reqs, m \in BOOLEAN : sendMail(r, m)

SpecMail == Init /\ [][NextMail]_vars

(* The error-handling middleware: src/app.ts, src/unnamed/part_000 *)

\* an error without status, without code
NoStatus == 0
NoCodeName == "undefined"
\* the response without error object
NoError ==
    [name |-> "undefined", message |-> "", isOperational |-> FALSE,
     status |-> NoStatus, code |-> NoCodeName]
\* the message of the middleware for errors that are not operational
GenericMessage == "system error occurred"

\* the errors a handler passes to next(): operational errors with their
\* message for the caller, errors of the program and raw errors of the driver
ErrorNames == {"AppError", "TypeError", "MongoServerError"}
ErrorMessages ==
    {"please try again later", "",
     "Cannot read properties of undefined (reading 'password')",
     "E11000 duplicate key error collection: users index: email_1"}
Errors ==
    {err \in [name : ErrorNames, message : ErrorMessages, isOperational : BOOLEAN,
              status : {NoStatus, 400, 500}, code : {NoCodeName, "COOLDOWN"}] :
        err.name = "AppError" => err.isOperational}

\* a handler rejects and handleErrorAsync passes the error on
throwError(err) ==
    /\ last.op # "next"
    /\ last' = [op |-> "next", err |-> err]
    /\ UNCHANGED <<users, nextId, now, tokens, inflight>>

\* the response of the middleware
ErrorResp(status, message, errorCode, error) ==
    [op |-> "errorResponse", status |-> status, message |-> message,
     errorCode |-> errorCode, error |-> error]

statusCode(err) == IF err.status = NoStatus THEN 500 ELSE err.status

\* the middleware of app.ts
errorMiddleware(err) ==
    /\ last = [op |-> "next", err |-> err]
    /\ IF err.isOperational
       THEN last' = ErrorResp(statusCode(err), err.message,
                              IF err.code = NoCodeName THEN "ERROR" ELSE err.code, NoError)
       ELSE last' = ErrorResp(statusCode(err), GenericMessage, "SYSTEM_ERROR", NoError)
    /\ UNCHANGED <<users, nextId, now, tokens, inflight>>

\* the middleware of part_000: AppError by mark or by name, and for the
\* others the message of the error, where it has one, and the error itself
errorMiddlewareNamed(err) ==
    /\ last = [op |-> "next", err |-> err]
    /\ IF err.isOperational \/ err.name = "AppError"
       THEN last' = ErrorResp(statusCode(err), err.message,
                              IF err.code = NoCodeName THEN "ERROR" ELSE err.code, NoError)
       ELSE last' = ErrorResp(statusCode(err),
                              IF err.message = "" THEN GenericMessage ELSE err.message,
                              "SYSTEM_ERROR", err)
    /\ UNCHANGED <<users, nextId, now, tokens, inflight>>

NextErrors ==
    \/ \E err \in Errors : throwError(err)
    \/ \E err \in Errors : errorMiddleware(err)
    \/ \E err \in Errors : errorMiddlewareNamed(err)

SpecErrors == Init /\ [][NextErrors]_vars

(* The first revision on its own *)

ProfilesV0 == [id : ProviderIds, email : Emails \cup {UpperEmail, NoEmail}, photo : BOOLEAN]

NextV0 ==
    \/ \E e \in Emails \cup {UpperEmail, BadEmail, ""}, p \in Passwords \cup {""} :
          registerV0(e, p)
    \/ \E e \in Emails \cup {""}, p \in Passwords : loginV0(e, p)
    \/ \E profile \in ProfilesV0 : googleCallbackV0(profile)

SpecV0 == Init /\ [][NextV0]_vars

----------------------------------------------------------------------------
(* Properties *)

\* the document findOne({ email }) returns, where there is one
account(email) == users[CHOOSE i \in findByEmail(email) : TRUE]

\* C1 -- one-time codes are consumed once.  In either flow, a consume call
\* (verifyEmail, resetPassword) with the correct code before expiry succeeds
\* and clears the stored code hash and expiry; a consume call on an account
\* whose code fields are cleared fails with the no-active-code error and
\* changes nothing; and cleared code fields are set again only by a step of
\* the issuing handler, so every consume call between a success and the next
\* issuance is refused.
C1_ConsumeOnce ==
    [][/\ \A e \in Emails, c \in Codes :
            verifyEmail(e, c) /\ findByEmail(e) # {} =>
              LET i == CHOOSE i \in findByEmail(e) : TRUE
              IN /\ (/\ activeVerification(users[i])
                     /\ users[i].verificationTokenExpires >= now
                     /\ bcryptCompare(Plain(c), users[i].verificationToken))
                    => /\ last'.kind = "Ok"
                       /\ users'[i].verificationToken = NoCode
                       /\ users'[i].verificationTokenExpires = Absent
                 /\ ~activeVerification(users[i])
                    => last'.kind = "NoActiveCode" /\ users' = users
       /\ \A e \in Emails, c \in Codes, p \in Passwords :
            resetPassword(e, c, p) /\ WellFormed(p) /\ findByEmail(e) # {} =>
              LET i == CHOOSE i \in findByEmail(e) : TRUE
              IN /\ (/\ activeReset(users[i])
                     /\ users[i].passwordResetExpires >= now
                     /\ bcryptCompare(Plain(c), users[i].passwordResetToken))
                    => /\ last'.kind = "Ok"
                       /\ users'[i].passwordResetToken = NoCode
                       /\ users'[i].passwordResetExpires = Absent
                 /\ ~activeReset(users[i])
                    => last'.kind = "NoActiveCode" /\ users' = users
       /\ \A i \in Ids :
            /\ (~activeVerification(users[i]) /\ activeVerification(users'[i]))
               => last'.op = "resendVerification"
            /\ (~activeReset(users[i]) /\ activeReset(users'[i]))
               => last'.op = "requestPasswordReset"
      ]_vars

\* C1, reached: a verified account, whose code was therefore consumed, has
\* just been refused a further verifyEmail for want of an active code
C1_SecondConsumeRefused ==
    /\ last.op = "verifyEmail"
    /\ last.kind = "NoActiveCode"
    /\ findByEmail(last.email) # {}
    /\ account(last.email).isEmailVerified
    /\ ~activeVerification(account(last.email))

\* C2 -- expired codes are refused.  A consume call on an account whose
\* stored expiry lies before the current time fails with the code-expired
\* error whatever code is supplied, the correct one included, and leaves
\* the document (isEmailVerified and the password hash among its fields)
\* unchanged; the stored expiry is the issue time plus ten minutes, and
\* the decision is a comparison of it with the clock at the call.
C2_ExpiredCodeRefused ==
    [][/\ \A e \in Emails, c \in Codes :
            verifyEmail(e, c) /\ findByEmail(e) # {} =>
              ((/\ activeVerification(account(e))
                /\ account(e).verificationTokenExpires < now)
               => last'.kind = "CodeExpired" /\ users' = users)
       /\ \A e \in Emails, c \in Codes, p \in Passwords :
            resetPassword(e, c, p) /\ WellFormed(p) /\ findByEmail(e) # {} =>
              ((/\ activeReset(account(e))
                /\ account(e).passwordResetExpires < now)
               => last'.kind = "CodeExpired" /\ users' = users)
       /\ \A i \in DOMAIN users' :
            /\ (last'.op \in {"register", "signup", "resendVerification"}
                   /\ last'.userId = i /\ users' # users)
               => users'[i].verificationTokenExpires = now + CODE_TTL
            /\ (last'.op = "requestPasswordReset" /\ last'.userId = i /\ users' # users)
               => users'[i].passwordResetExpires = now + CODE_TTL
      ]_vars

\* C2, reached: verifyEmail has just refused the correct code of an
\* unverified account as expired
C2_CorrectCodeExpired ==
    /\ last.op = "verifyEmail"
    /\ last.kind = "CodeExpired"
    /\ findByEmail(last.email) # {}
    /\ bcryptCompare(Plain(last.code), account(last.email).verificationToken)
    /\ account(last.email).verificationTokenExpires < now
    /\ ~account(last.email).isEmailVerified

\* C3 -- the cooldown of the issuing handlers.  A call of resendVerification
\* (for an unverified account) or requestPasswordReset (for a verified one)
\* that arrives less than ten minutes after the account's last-attempt
\* timestamp fails with the cooldown error, carries remainingSeconds between
\* 1 and 600, and leaves the document (code hash, expiry, last-attempt
\* timestamp) unchanged.
C3_CooldownRefusesIssue ==
    [][/\ \A e \in Emails, c \in Codes, m \in BOOLEAN :
            resendVerification(e, c, m) /\ findByEmail(e) # {} =>
              ((~account(e).isEmailVerified /\ inCooldown(account(e), now))
               => /\ last'.kind = "Cooldown"
                  /\ 1 <= last'.remainingSeconds
                  /\ last'.remainingSeconds <= COOLDOWN \div 1000
                  /\ users' = users)
       /\ \A e \in Emails, c \in Codes, m \in BOOLEAN :
            requestPasswordReset(e, c, m) /\ findByEmail(e) # {} =>
              ((account(e).isEmailVerified /\ inCooldown(account(e), now))
               => /\ last'.kind = "Cooldown"
                  /\ 1 <= last'.remainingSeconds
                  /\ last'.remainingSeconds <= COOLDOWN \div 1000
                  /\ users' = users)
      ]_vars

\* C4 -- login requires a verified address.  A login request (the handler
\* of auth.controller.ts, and the handler the router mounts on /login) with
\* the correct password of a registered account fails with EmailNotVerified
\* and issues no session token while isEmailVerified is false, and succeeds
\* with a token of role user once it is true.
C4_LoginRequiresVerifiedEmail ==
    [][\A e \in Emails, p \in Passwords :
          (login(e, p) \/ loginUser(e, p)) /\ findByEmail(e) # {} =>
            ((account(e).role = "user" /\ bcryptCompare(Plain(p), account(e).password))
             => IF account(e).isEmailVerified
                THEN /\ last'.kind = "Ok"
                     /\ last'.token.role = "user"
                     /\ last'.token \in tokens'
                ELSE /\ last'.kind = "EmailNotVerified"
                     /\ last'.token = NoToken
                     /\ tokens' = tokens)
      ]_vars

C6_RegisterLoginRoundTrip ==
    [][/\ \A e \in Emails, p \in Passwords, c \in Codes, m \in BOOLEAN :
            register(e, p, c, m) /\ users' # users =>
              /\ users'[nextId].password = bcryptHash(Plain(p))
              /\ (loginResult(e, p))' \in {"Ok", "EmailNotVerified"}
              /\ \A q \in Passwords \ {p} : (loginResult(e, q))' = "InvalidCredentials"
       /\ \A e \in Emails, p \in Passwords :
            registerV0(e, p) /\ users' # users =>
              /\ users'[nextId].password = bcryptHash(Plain(p))
              /\ (loginV0Result(e, p))' = "Ok"
              /\ \A q \in Passwords \ {p} : (loginV0Result(e, q))' = "InvalidCredentials"
      ]_vars

\* C7 -- password reset.  resetPassword with a code that does not match the
\* stored hash (active and inside its TTL) fails with InvalidCode and leaves
\* the document unchanged; with the matching code it succeeds, after which
\* login accepts the new password and answers InvalidCredentials to every
\* other one, the old password among them.
C7_ResetPassword ==
    [][\A e \in Emails, c \in Codes, p \in Passwords :
          (/\ resetPassword(e, c, p)
           /\ WellFormed(p)
           /\ findByEmail(e) # {}
           /\ activeReset(account(e))
           /\ account(e).passwordResetExpires >= now)
          => IF bcryptCompare(Plain(c), account(e).passwordResetToken)
             THEN /\ last'.kind = "Ok"
                  /\ (loginResult(e, p))' = "Ok"
                  /\ \A q \in Passwords \ {p} :
                        (loginResult(e, q))' = "InvalidCredentials"
             ELSE /\ last'.kind = "InvalidCode"
                  /\ users' = users
      ]_vars

\* C7, reached: after a successful resetPassword, login accepts the password
\* newpass1 and refuses the password secret1
C7_NewPasswordReplacesOld ==
    /\ last.op = "resetPassword"
    /\ last.kind = "Ok"
    /\ loginResult(last.email, "newpass1") = "Ok"
    /\ loginResult(last.email, "secret1") = "InvalidCredentials"

\* C8 -- the Google callback is idempotent on the store.  After a successful
\* callback the account it resolved holds exactly one link for the profile's
\* id, and a callback whose id some account already holds creates no account
\* and appends no link.  Stated for both revisions of the strategy.
C8_ResolveIdempotent ==
    [][\A profile \in ProfilesV0 :
          ((googleCallback(profile) \/ googleCallbackV0(profile)) /\ last'.kind = "Ok")
          => /\ Cardinality({k \in 1..Len(users'[last'.userId].oauthProviders) :
                   isLinkOf(users'[last'.userId].oauthProviders[k], profile.id)}) = 1
             /\ (findByProvider(profile.id) # {} => users' = users)
      ]_vars

\* C9 -- merge by address.  When no account holds the profile's id and a
\* password account has the profile's address, the callback (of either
\* revision) answers with that account, appends exactly one link to it,
\* changes no other field of it (password hash, role, isEmailVerified and
\* the code fields among them), and creates no account.
C9_MergeByEmailFrame ==
    [][\A profile \in Profiles :
          (/\ googleCallback(profile) \/ googleCallbackV0(profile)
           /\ findByProvider(profile.id) = {}
           /\ profile.email # NoEmail
           /\ findByEmail(profile.email) # {}
           /\ account(profile.email).password # NoSecret)
          => LET i == CHOOSE i \in findByEmail(profile.email) : TRUE
             IN /\ last'.kind = "Ok"
                /\ last'.userId = i
                /\ users' = [users EXCEPT ![i].oauthProviders =
                                Append(@, googleLink(profile.id))]
                /\ nextId' = nextId
      ]_vars

\* C9, reached: the callback has just answered with a password account that
\* now holds one link
C9_PasswordAccountLinked ==
    /\ last.op = "googleCallback"
    /\ last.kind = "Ok"
    /\ users[last.userId].password # NoSecret
    /\ Len(users[last.userId].oauthProviders) = 1

\* C10 -- no takeover through the merge.  For an account created by password
\* registration, never verified, and since merged with a Google identity,
\* the registrant holds no session token issued on the password path and no
\* password logs in at the mounted login handler.
C10_NoTakeoverAfterMerge ==
    \A i \in Ids :
        (/\ users[i].password # NoSecret
         /\ ~users[i].isEmailVerified
         /\ Len(users[i].oauthProviders) > 0)
        => /\ \A t \in tokens : ~(t.userId = i /\ t.via = "password")
           /\ \A p \in Passwords : loginUserResult(users[i].email, p) # "Ok"

\* C11 -- login does not tell "no such account" from "wrong password".  For
\* every password, the answer (status and error) to an address no account
\* has equals the answer to the address of an account that has a password
\* other than the supplied one; stated for login of auth.controller.ts and
\* for the login the router mounts.
C11_UniformLoginFailure ==
    \A e1 \in Emails, e2 \in Emails, p \in Passwords :
        (/\ findByEmail(e1) = {}
         /\ findByEmail(e2) # {}
         /\ account(e2).password # NoSecret
         /\ ~bcryptCompare(Plain(p), account(e2).password))
        => /\ loginResult(e1, p) = loginResult(e2, p)
           /\ loginStatus(loginResult(e1, p)) = loginStatus(loginResult(e2, p))
           /\ loginUserResult(e1, p) = loginUserResult(e2, p)
           /\ loginUserStatus(loginUserResult(e1, p)) = loginUserStatus(loginUserResult(e2, p))

\* C12 -- no password login for an account without a password.  A login
\* request (either handler) for an account that has no password hash fails
\* with the OAuth-only error whatever password is supplied, and issues no
\* session token.
C12_OAuthOnlyLoginRefused ==
    [][\A e \in Emails, p \in Passwords :
          (/\ login(e, p) \/ loginUser(e, p)
           /\ findByEmail(e) # {}
           /\ account(e).password = NoSecret)
          => /\ last'.kind = "OAuthOnlyAccount"
             /\ last'.token = NoToken
             /\ tokens' = tokens
      ]_vars

C14_PasswordOrLink ==
    \A i \in Ids : users[i].password # NoSecret \/ Len(users[i].oauthProviders) > 0

\* C15 -- the plaintext of a one-time code stays out of the store and out
\* of the log.  In every reachable state the stored verification and reset
\* tokens are bcrypt hashes (or absent), and the handler of the most recent
\* request wrote no one-time code to the console.
C15_CodePlaintextConfined ==
    /\ \A i \in Ids :
          /\ users[i].verificationToken = NoCode \/ users[i].verificationToken.rounds >= 1
          /\ users[i].passwordResetToken = NoCode \/ users[i].passwordResetToken.rounds >= 1
    /\ last.logged = 0

C17_SharedCooldown ==
    [][/\ \A i \in DOMAIN users' :
            (/\ activeVerification(users'[i])
             /\ i \in Ids => users'[i].verificationTokenExpires # users[i].verificationTokenExpires)
            => users'[i].lastVerificationAttempt = now
       /\ \A e \in Emails, c \in Codes, m \in BOOLEAN :
            (/\ requestPasswordReset(e, c, m)
             /\ findByEmail(e) # {}
             /\ account(e).isEmailVerified
             /\ inCooldown(account(e), now))
            => /\ last'.kind = "Cooldown"
               /\ users' = users
      ]_vars

\* C17, reached: requestPasswordReset has just been refused for cooldown in
\* the first ten minutes of the run, when no reset code can have been
\* issued yet: the timestamp is that of a verification code
C17_ResetBlockedByVerification ==
    /\ last.op = "requestPasswordReset"
    /\ last.kind = "Cooldown"
    /\ now < COOLDOWN
    /\ ~activeReset(users[last.userId])

\* C18 -- a successful registration (register, or signup of
\* controller/user.ts) creates the account unverified, issues an
\* email-verification code for it at once, and hands the caller no session
\* token: the response carries none and none is issued.
C18_RegisterIssuesNoToken ==
    [][(/\ last'.op \in {"register", "signup"}
        /\ last'.kind = "Ok"
        /\ nextId' = nextId + 1)
       => /\ nextId \notin Ids
          /\ ~users'[nextId].isEmailVerified
          /\ activeVerification(users'[nextId])
          /\ last'.token = NoToken
          /\ tokens' = tokens
      ]_vars

\* the role of every account that stays in the store is left as it was
rolesUnchanged == \A i \in Ids \cap DOMAIN users' : users'[i].role = users[i].role

\* C19 -- no privilege escalation.  A request whose session does not hold
\* the role admin or superuser changes the role of no account, its own
\* included (updateRole, adminUpdateUserInfo, updateUser), and an account
\* created by a caller without a session (register, signup) has role user.
C19_NoPrivilegeEscalation ==
    [][/\ \A caller \in Callers :
            (caller = NoToken \/ ~isAdminOrSuperuser(caller.role))
            => /\ updateRole(caller, "admin") => rolesUnchanged
               /\ \A id \in 1..MaxIds, body \in AdminBodies :
                     /\ adminUpdateUserInfo(caller, id, body) => rolesUnchanged
                     /\ updateUser(caller, id, body) => rolesUnchanged
       /\ (/\ last'.op \in {"register", "signup"}
           /\ nextId' = nextId + 1)
          => users'[nextId].role = "user"
      ]_vars

\* the request is refused: no success answer, and the store is as it was
refused == last'.kind # "Ok" /\ users' = users

\* C20 -- administrative operations are for admin and superuser sessions.
\* Listing all users, updating a user's fields and deleting a user, in both
\* controllers, are refused for a caller whose session does not hold role
\* admin or superuser: the store is left unchanged and the answer is not the
\* success answer that carries user data.
C20_AdminOperationsGuarded ==
    [][\A caller \in Callers :
          (caller = NoToken \/ ~isAdminOrSuperuser(caller.role))
          => /\ getUsersUser(caller) => refused
             /\ getUsers(caller) => refused
             /\ \A id \in 1..MaxIds :
                   /\ adminDeleteUser(caller, id) => refused
                   /\ deleteUser(caller, id) => refused
                   /\ \A body \in AdminBodies :
                         /\ adminUpdateUserInfo(caller, id, body) => refused
                         /\ updateUser(caller, id, body) => refused
      ]_vars

\* C21 -- accounts are removed by the administrative delete alone.  A step
\* of any other operation (register, login, verifyEmail,
\* resendVerification, requestPasswordReset, resetPassword, the Google
\* callback, updateInfo, updateRole), whether it succeeds or fails, leaves
\* every account in the store; only a successful adminDeleteUser or
\* deleteUser removes one, and it removes the one it names.
C21_OnlyDeleteRemoves ==
    [][\/ Ids \subseteq DOMAIN users'
       \/ /\ last'.op \in {"adminDeleteUser", "deleteUser"}
          /\ last'.kind = "Ok"
          /\ DOMAIN users' = Ids \ {last'.userId}
      ]_vars

\* C21, reached: an account that has been through the flows (verified, a
\* link added, its profile updated) is in the store after a profile update
C21_AccountKeptByFlows ==
    /\ last.op = "updateInfo"
    /\ last.kind = "Ok"
    /\ last.userId \in Ids
    /\ users[last.userId].isEmailVerified
    /\ users[last.userId].phone # NoPhone

\* C22 -- errors that are not operational are answered generically.  For
\* every error not marked operational, the response of the error-handling
\* middleware has the generic system-error message and the code
\* SYSTEM_ERROR, and carries no error object.
C22_SystemErrorGeneric ==
    [][\A err \in Errors :
          (/\ ~err.isOperational
           /\ (errorMiddleware(err) \/ errorMiddlewareNamed(err)))
          => /\ last'.message = GenericMessage
             /\ last'.errorCode = "SYSTEM_ERROR"
             /\ last'.error = NoError
      ]_vars

\* C23 -- one code per cooldown window, also for overlapping requests.  Of
\* two issuing requests (resendVerification or requestPasswordReset) for the
\* same account that were both answered with success, one was answered at
\* least a cooldown period after the other: within one window at most one
\* of them issues a code.
C23_OneIssuePerWindow ==
    \A r1, r2 \in Reqs :
        (/\ r1 # r2
         /\ answered(r1, "Ok")
         /\ answered(r2, "Ok")
         /\ inflight[r1].resp.userId = inflight[r2].resp.userId)
        => \/ inflight[r1].at - inflight[r2].at >= COOLDOWN
           \/ inflight[r2].at - inflight[r1].at >= COOLDOWN

\* C24 -- a code is consumed once, also by overlapping requests.  Where one
\* verification code and one reset code are issued for an account, two
\* verifyEmail requests, or two resetPassword requests, for that account
\* are never both answered with success.
C24_ConsumedOnceConcurrently ==
    \A r1, r2 \in Reqs :
        (/\ r1 # r2
         /\ answered(r1, "Ok")
         /\ inflight[r1].op \in {"verifyEmail", "resetPassword"}
         /\ r2 \in DOMAIN inflight
         /\ inflight[r2].op = inflight[r1].op
         /\ inflight[r2].pc = "done")
        => inflight[r2].resp.kind # "Ok"

\* the links of account i to the Google identity providerId
linksTo(i, providerId) ==
    {k \in 1..Len(users[i].oauthProviders) : isLinkOf(users[i].oauthProviders[k], providerId)}

\* C25 -- one account and one link per Google identity, also for overlapping
\* callbacks.  At every point the store holds at most one account linked to
\* a given Google id, at most one account with the address of the profile,
\* and no account holds the link (google, id) twice.
C25_OneAccountOneLink ==
    \A providerId \in ProviderIds :
        /\ Cardinality({i \in Ids : linksTo(i, providerId) # {}}) <= 1
        /\ \A i \in Ids : Cardinality(linksTo(i, providerId)) <= 1
        /\ \A i, j \in Ids : users[i].email = users[j].email => i = j

\* C26 -- a registration that loses the race for an address is a duplicate.
\* Overlapping registrations create at most one account per address, and a
\* well-formed registration that was refused because the address is taken
\* is answered with the duplicate-email error, whether its lookup or the
\* insert found the address taken.
C26_RaceLoserGetsDuplicate ==
    /\ \A i, j \in Ids : users[i].email = users[j].email => i = j
    /\ \A r \in Reqs :
          (/\ r \in DOMAIN inflight
           /\ inflight[r].op = "register"
           /\ inflight[r].pc = "done")
          => inflight[r].resp.kind \in {"Ok", "DuplicateEmail"}

\* C27 -- persist, then mail.  When an issuing handler (register,
\* resendVerification, requestPasswordReset) starts the mail with a code,
\* the account in the store holds the hash of that code in the field of the
\* flow, an expiry ten minutes after the issue, and a last-attempt
\* timestamp not older than the request.
C27_PersistedBeforeMail ==
    [][\A r \in Reqs, m \in BOOLEAN :
          sendMail(r, m)
          => LET req == inflight[r]
                 user == users[req.id]
                 reset == req.op = "requestPasswordReset"
             IN /\ req.id \in Ids
                /\ (IF reset THEN user.passwordResetToken ELSE user.verificationToken)
                      = bcryptHash(Plain(req.code))
                /\ (IF reset THEN user.passwordResetExpires ELSE user.verificationTokenExpires)
                      \in {t + CODE_TTL : t \in {i \in Instants : req.at <= i /\ i <= now}}
                /\ user.lastVerificationAttempt # Absent
                /\ user.lastVerificationAttempt >= req.at
      ]_vars

\* C27, reached: the mail of each issuing handler has been sent
C27_MailSentOnEachPath ==
    \E r \in DOMAIN inflight :
        /\ answered(r, "Ok")
        /\ inflight[r].op = "requestPasswordReset"
        /\ activeReset(users[inflight[r].resp.userId])
        /\ \E q \in DOMAIN inflight : answered(q, "Ok") /\ inflight[q].op = "register"

\* C28 -- a mail that fails undoes nothing.  When the mailer rejects, the
\* request is answered with an error and the store is left as it was: the
\* account (new, at registration) still holds the code, which the consume
\* handler of the flow accepts, and the last-attempt timestamp of the
\* request, from which the cooldown runs.
C28_MailFailureKeepsCode ==
    [][\A r \in Reqs, e \in Emails, c \in Codes :
          (/\ sendMail(r, FALSE)
           /\ inflight[r].email = e
           /\ inflight[r].code = c)
          => LET req == inflight[r]
             IN /\ last'.status = 500
                /\ last'.kind \in {"SystemError", "NotificationFailed"}
                /\ users' = users
                /\ req.id \in DOMAIN users'
                /\ IF req.op = "requestPasswordReset"
                   THEN (resetPasswordResult(e, c, "newpass1"))' = "Ok"
                   ELSE (verifyEmailResult(e, c))' = "Ok"
                /\ users'[req.id].lastVerificationAttempt >= req.at
                /\ inCooldown(users'[req.id], users'[req.id].lastVerificationAttempt + COOLDOWN - 1)
      ]_vars

\* C28, reached: the code of a registration whose mail failed has been
\* consumed by verifyEmail
C28_CodeOfFailedMailConsumed ==
    /\ last.op = "verifyEmail"
    /\ last.kind = "Ok"
    /\ \E r \in DOMAIN inflight :
          /\ answered(r, "SystemError")
          /\ inflight[r].op = "register"
          /\ inflight[r].resp.userId = last.userId

\* C29 -- a session token names its account and that account's role.  Every
\* token issued by a step (register, login, the Google login, updateRole)
\* carries the id of an account in the store and the role stored on that
\* account when the step ends.
C29_TokenCarriesStoredRole ==
    [][\A tok \in tokens' \ tokens :
          /\ tok.userId \in DOMAIN users'
          /\ tok.role = users'[tok.userId].role
      ]_vars

\* C30 -- a callback whose provider id some account already holds answers
\* with that account, whichever account (if any) has the profile's address;
\* it creates no account, appends no link to any account, and the held link
\* then carries the expiry of the tokens this callback received.  Stated
\* for both revisions of the strategy.
C30_HeldLinkResolves ==
    [][\A profile \in OAuthInputs :
          (/\ googleCallback(profile) \/ googleCallbackV0(profile)
           /\ findByProvider(profile.id) # {})
          => LET i == CHOOSE i \in findByProvider(profile.id) : TRUE
             IN /\ last'.kind = "Ok"
                /\ last'.userId = i
                /\ nextId' = nextId
                /\ DOMAIN users' = DOMAIN users
                /\ \A j \in DOMAIN users :
                      Len(users'[j].oauthProviders) = Len(users[j].oauthProviders)
                /\ \A k \in 1..Len(users'[i].oauthProviders) :
                      isLinkOf(users'[i].oauthProviders[k], profile.id)
                      => users'[i].oauthProviders[k].tokenExpiresAt = now + TOKEN_TTL
      ]_vars

\* C31 -- required and optional profile fields.  A callback whose profile
\* carries no e-mail address answers with an error and leaves the store as
\* it is, and a callback whose profile carries the id and the address is
\* not refused for what else the profile lacks.
C31_RequiredProfileFields ==
    [][\A profile \in OAuthInputs :
          googleCallback(profile)
          => /\ profile.email = NoEmail
                => /\ last'.kind = "MissingProviderEmail"
                   /\ users' = users
                   /\ nextId' = nextId
             /\ profile.email # NoEmail => last'.kind = "Ok"
      ]_vars

\* C32 -- who verifies an address.  The isEmailVerified of an account that
\* has a password changes only from false to true, and only in a step of
\* verifyEmail whose code hashes to the stored verificationToken while the
\* stored expiry has not passed; register creates the account unverified.
\* Login, resend, the reset request, the reset, the Google callback and the
\* profile update leave the field as it is.
C32_OnlyVerifyEmailVerifies ==
    [][/\ \A i \in DOMAIN users' \ DOMAIN users :
             users'[i].password # NoSecret => ~users'[i].isEmailVerified
       /\ \A i \in DOMAIN users \cap DOMAIN users' :
             (/\ users[i].password # NoSecret
              /\ users'[i].isEmailVerified # users[i].isEmailVerified)
             => /\ ~users[i].isEmailVerified
                /\ \E c \in Codes :
                      /\ verifyEmail(users[i].email, c)
                      /\ users[i].verificationToken = bcryptHash(Plain(c))
                      /\ users[i].verificationTokenExpires >= now
      ]_vars

\* C32, reached: verifyEmail has just verified a password account that the
\* Google callback had linked and whose holder had updated the profile
\* while it was unverified
C32_VerifiedAfterOtherFlows ==
    /\ last.op = "verifyEmail"
    /\ last.kind = "Ok"
    /\ last.userId \in DOMAIN users
    /\ users[last.userId].isEmailVerified
    /\ users[last.userId].password # NoSecret
    /\ users[last.userId].oauthProviders # <<>>
    /\ users[last.userId].phone # NoPhone

verifyFails(email, code) ==
    \/ findByEmail(email) = {}
    \/ ~activeVerification(account(email))
    \/ account(email).verificationTokenExpires < now
    \/ account(email).verificationToken # bcryptHash(Plain(code))

\* the requests resetPassword refuses, read off the store
resetFails(email, code, newPassword) ==
    \/ ~WellFormed(newPassword)
    \/ findByEmail(email) = {}
    \/ ~activeReset(account(email))
    \/ account(email).passwordResetExpires < now
    \/ account(email).passwordResetToken # bcryptHash(Plain(code))

\* C34 -- a refused consume writes nothing.  A verifyEmail or resetPassword
\* request for an unknown address, for an account without an active code,
\* with an expired code, with a wrong code or (resetPassword) with a new
\* password that is too short is answered with an error and leaves every
\* document as it is: code hash and expiry, isEmailVerified, password and
\* lastVerificationAttempt among its fields.
C34_FailedConsumeWritesNothing ==
    [][/\ \A e \in {FlowEmail, OtherEmail}, c \in Codes :
             (verifyEmail(e, c) /\ verifyFails(e, c))
             => /\ last'.kind # "Ok"
                /\ users' = users
       /\ \A r \in ResetInputs :
             (resetPassword(r[1], r[2], r[3]) /\ resetFails(r[1], r[2], r[3]))
             => /\ last'.kind # "Ok"
                /\ users' = users
      ]_vars

\* C34, reached: resetPassword has just refused a wrong code, and the code
\* that was issued is still accepted
C34_WrongGuessKeepsCode ==
    /\ last.op = "resetPassword"
    /\ last.kind = "InvalidCode"
    /\ resetPasswordResult(last.email, IssuedCode, "newpass1") = "Ok"

\* C35 -- one consumable code per flow.  Issuing a code replaces the stored
\* hash of its flow by the hash of the new code, whatever was stored; a
\* consume call is accepted only with the code the stored hash is of, and,
\* while the stored code has not expired, a call with any other code (an
\* earlier one among them) is answered "InvalidCode"; and the stored hash
\* of a flow changes in no other way than by issuing and by the accepted
\* consume, which clears it.
C35_OnlyLatestCodeAccepted ==
    [][/\ \A c \in Codes, m \in BOOLEAN :
             (resendVerification(FlowEmail, c, m) /\ last'.kind \in {"Ok", "SystemError"})
             => users'[last'.userId].verificationToken = bcryptHash(Plain(c))
       /\ \A c \in Codes, m \in BOOLEAN :
             (requestPasswordReset(FlowEmail, c, m) /\ last'.kind \in {"Ok", "NotificationFailed"})
             => users'[last'.userId].passwordResetToken = bcryptHash(Plain(c))
       /\ \A c \in Codes :
             verifyEmail(FlowEmail, c)
             => /\ last'.kind = "Ok"
                   => account(FlowEmail).verificationToken = bcryptHash(Plain(c))
                /\ (/\ findByEmail(FlowEmail) # {}
                    /\ activeVerification(account(FlowEmail))
                    /\ account(FlowEmail).verificationTokenExpires >= now
                    /\ account(FlowEmail).verificationToken # bcryptHash(Plain(c)))
                   => last'.kind = "InvalidCode"
       /\ \A c \in Codes :
             resetPassword(FlowEmail, c, "newpass1")
             => /\ last'.kind = "Ok"
                   => account(FlowEmail).passwordResetToken = bcryptHash(Plain(c))
                /\ (/\ findByEmail(FlowEmail) # {}
                    /\ activeReset(account(FlowEmail))
                    /\ account(FlowEmail).passwordResetExpires >= now
                    /\ account(FlowEmail).passwordResetToken # bcryptHash(Plain(c)))
                   => last'.kind = "InvalidCode"
       /\ \A i \in DOMAIN users \cap DOMAIN users' :
             /\ users'[i].verificationToken # users[i].verificationToken
                => \/ \E c \in Codes, m \in BOOLEAN : resendVerification(FlowEmail, c, m)
                   \/ /\ \E c \in Codes : verifyEmail(FlowEmail, c)
                      /\ users'[i].verificationToken = NoCode
             /\ users'[i].passwordResetToken # users[i].passwordResetToken
                => \/ \E c \in Codes, m \in BOOLEAN : requestPasswordReset(FlowEmail, c, m)
                   \/ /\ \E c \in Codes : resetPassword(FlowEmail, c, "newpass1")
                      /\ users'[i].passwordResetToken = NoCode
      ]_vars

\* C35, reached: the account was registered with one code, resendVerification
\* has replaced it by another, and verifyEmail has just refused the first
C35_EarlierCodeRefused ==
    /\ last.op = "verifyEmail"
    /\ last.kind = "InvalidCode"
    /\ last.code = IssuedCode
    /\ findByEmail(FlowEmail) # {}
    /\ account(FlowEmail).verificationToken # bcryptHash(Plain(IssuedCode))
    /\ account(FlowEmail).verificationToken # NoCode

\* C36 -- the two flows keep to their own fields.  An accepted verifyEmail
\* leaves passwordResetToken, passwordResetExpires, password, role and
\* oauthProviders of the account as they were, an accepted resetPassword
\* leaves verificationToken, verificationTokenExpires, isEmailVerified,
\* role, oauthProviders and lastVerificationAttempt as they were, and
\* neither writes to another document.
C36_FlowsKeepToTheirFields ==
    [][/\ (verifyEmail(FlowEmail, IssuedCode) /\ last'.kind = "Ok")
          => LET i == last'.userId
             IN /\ users'[i].passwordResetToken = users[i].passwordResetToken
                /\ users'[i].passwordResetExpires = users[i].passwordResetExpires
                /\ users'[i].password = users[i].password
                /\ users'[i].role = users[i].role
                /\ users'[i].oauthProviders = users[i].oauthProviders
                /\ \A j \in DOMAIN users \ {i} : users'[j] = users[j]
       /\ \A c \in Codes :
             (resetPassword(FlowEmail, c, "newpass1") /\ last'.kind = "Ok")
             => LET i == last'.userId
                IN /\ users'[i].verificationToken = users[i].verificationToken
                   /\ users'[i].verificationTokenExpires = users[i].verificationTokenExpires
                   /\ users'[i].isEmailVerified = users[i].isEmailVerified
                   /\ users'[i].role = users[i].role
                   /\ users'[i].oauthProviders = users[i].oauthProviders
                   /\ users'[i].lastVerificationAttempt = users[i].lastVerificationAttempt
                   /\ \A j \in DOMAIN users \ {i} : users'[j] = users[j]
      ]_vars

\* C36, reached: resetPassword has just been accepted for a verified account
\* that holds a link and the time its last code was issued
C36_ResetKeptOtherFields ==
    /\ last.op = "resetPassword"
    /\ last.kind = "Ok"
    /\ last.userId \in DOMAIN users
    /\ users[last.userId].isEmailVerified
    /\ users[last.userId].lastVerificationAttempt # Absent
    /\ users[last.userId].oauthProviders # <<>>
    /\ users[last.userId].passwordResetToken = NoCode

C38_IdentityLinkedOnce ==
    \A providerId \in ProviderIds :
        Cardinality({i \in Ids : linksTo(i, providerId) # {}}) <= 1

\* C38, reached: two accounts, each holding the link of another identity,
\* after a callback was answered
C38_TwoIdentitiesTwoAccounts ==
    /\ last.op \in {"googleCallback", "googleCallbackV0"}
    /\ last.kind = "Ok"
    /\ \E i, j \in Ids :
          /\ i # j
          /\ linksTo(i, "g123") # {}
          /\ linksTo(j, "g456") # {}

\* C39 -- codes and the verified flag.  In every state that register,
\* resendVerification, verifyEmail and requestPasswordReset reach, in
\* whatever way their steps interleave, an account with isEmailVerified
\* holds no verification code (verificationToken and
\* verificationTokenExpires are absent), and an account that holds a
\* password-reset code has isEmailVerified.
C39_CodesMatchVerifiedFlag ==
    \A i \in Ids :
        /\ users[i].isEmailVerified
           => /\ users[i].verificationToken = NoCode
              /\ users[i].verificationTokenExpires = Absent
        /\ users[i].passwordResetToken # NoCode => users[i].isEmailVerified

====
